---- MODULE Spec2Model ----
(***************************************************************************)
(* A model of the p1r4t3 WebGPU boat renderer.                             *)
(*                                                                         *)
(*   SpecOrbit : the lit renderer (orbit camera handlers and the frame     *)
(*               tick that packs the uniform block)                        *)
(*                                                                         *)
(* Numbers.  The program computes on IEEE doubles; the model uses fixed    *)
(* point.  Angles and the camera radius are integers counting 1/Scale of   *)
(* a radian / a world unit, pointer coordinates are whole CSS pixels, and  *)
(* a two-finger distance counts 1/DistScale of a pixel.                    *)
(***************************************************************************)
EXTENDS Integers, Sequences, FiniteSets, TLC

(***************************************************************************)
(* Fixed-point resolution (not a program constant, not a model bound).     *)
(***************************************************************************)
Scale == 100 * 100
DistScale == 10 * 10

(***************************************************************************)
(* Bounds of the model.                                                    *)
(***************************************************************************)
\* a touch event carries 1 .. MaxTouches touch points
MaxTouches == 3
\* the azimuth is followed while it stays within MaxTurn radians of its start
MaxTurn == 1

(***************************************************************************)
(* Math.* of the program, in fixed point.                                  *)
(***************************************************************************)
\* Math.PI, to 1/Scale
PI == (31416 * Scale) \div 10000

Max(a, b) == IF a >= b THEN a ELSE b
Min(a, b) == IF a <= b THEN a ELSE b

RECURSIVE SqrtBetween(_, _, _)
\* the largest r in lo..hi with r * r <= n (lo * lo <= n is assumed)
SqrtBetween(n, lo, hi) ==
  IF lo >= hi THEN lo
  ELSE LET mid == (lo + hi + 1) \div 2
       IN  IF mid * mid <= n THEN SqrtBetween(n, mid, hi)
                             ELSE SqrtBetween(n, lo, mid - 1)

\* Math.hypot(dx, dy) for whole-pixel dx, dy; the result counts 1/DistScale px
Hypot(dx, dy) ==
  LET n == DistScale * DistScale * (dx * dx + dy * dy)
  IN  SqrtBetween(n, 0, DistScale * (Max(dx, -dx) + Max(dy, -dy)))

(***************************************************************************)
(* Camera constants of the lit renderer.                                   *)
(***************************************************************************)
\* 0.01 rad per pixel of drag
KRot == Scale \div 100
\* 0.01 world units per unit of wheel deltaY
KZoom == Scale \div 100
\* 0.05 world units per pixel of pinch distance
KPinch == (5 * Scale) \div (100 * DistScale)
PhiMin == Scale \div 10
PhiMax == PI - Scale \div 10
RadiusMin == 2 * Scale
RadiusMax == 50 * Scale

\* Math.max(0.1, Math.min(Math.PI - 0.1, phi))
ClampPhi(phi) == Max(PhiMin, Min(PhiMax, phi))
\* Math.max(2, Math.min(50, radius))
ClampRadius(r) == Max(RadiusMin, Min(RadiusMax, r))

\* useRef({...}): the camera state at mount
cameraState0 ==
  [ theta |-> 0 - PI \div 4,
    phi |-> PI \div 6,
    radius |-> 12 * Scale,
    isDragging |-> FALSE,
    lastX |-> 0,
    lastY |-> 0,
    lastPinchDist |-> 0 ]

(***************************************************************************)
(* Input handlers of the lit renderer, as functions of the camera state    *)
(* and the event.  A touch list is a sequence of points <<clientX,         *)
(* clientY>>.                                                              *)
(***************************************************************************)
\* mutant: the pointer position is not recorded
handleMouseDown_noRecord(c, x, y) == [c EXCEPT !.isDragging = TRUE]

handleMouseDown(c, x, y) ==
  [c EXCEPT !.isDragging = TRUE, !.lastX = x, !.lastY = y]

handleMouseUp(c) == [c EXCEPT !.isDragging = FALSE]

\* mutant: the polar angle is not clamped
handleMouseMove_noClamp(c, x, y) ==
  IF ~c.isDragging THEN c
  ELSE [c EXCEPT !.theta = c.theta - (x - c.lastX) * KRot,
                 !.phi = c.phi - (y - c.lastY) * KRot,
                 !.lastX = x,
                 !.lastY = y]

handleMouseMove(c, x, y) ==
  IF ~c.isDragging THEN c
  ELSE LET deltaX == x - c.lastX
           deltaY == y - c.lastY
       IN  [c EXCEPT !.theta = c.theta - deltaX * KRot,
                     !.phi = ClampPhi(c.phi - deltaY * KRot),
                     !.lastX = x,
                     !.lastY = y]

\* mutant: the zoom direction is inverted
handleWheel_inverted(c, deltaY) ==
  [c EXCEPT !.radius = ClampRadius(c.radius - deltaY * KZoom)]

handleWheel(c, deltaY) ==
  [c EXCEPT !.radius = ClampRadius(c.radius + deltaY * KZoom)]

\* mutant: a two-finger touchstart does not record the distance
handleTouchStart_noRecord(c, touches) ==
  IF Len(touches) = 1
    THEN [c EXCEPT !.isDragging = TRUE,
                   !.lastX = touches[1][1],
                   !.lastY = touches[1][2]]
  ELSE IF Len(touches) = 2
    THEN [c EXCEPT !.isDragging = FALSE]
  ELSE c

\* mutant: a second touch point does not switch dragging off
handleTouchStart_keepsDragging(c, touches) ==
  IF Len(touches) = 1
    THEN [c EXCEPT !.isDragging = TRUE,
                   !.lastX = touches[1][1],
                   !.lastY = touches[1][2]]
  ELSE IF Len(touches) = 2
    THEN [c EXCEPT !.lastPinchDist =
                     Hypot(touches[1][1] - touches[2][1],
                           touches[1][2] - touches[2][2])]
  ELSE c

handleTouchStart(c, touches) ==
  IF Len(touches) = 1
    THEN [c EXCEPT !.isDragging = TRUE,
                   !.lastX = touches[1][1],
                   !.lastY = touches[1][2]]
  ELSE IF Len(touches) = 2
    THEN LET dx == touches[1][1] - touches[2][1]
             dy == touches[1][2] - touches[2][2]
         IN  [c EXCEPT !.isDragging = FALSE,
                       !.lastPinchDist = Hypot(dx, dy)]
  ELSE c

\* mutant: the pinch does not clamp the radius
handleTouchMove_noClamp(c, touches) ==
  IF Len(touches) = 1 /\ c.isDragging
    THEN [c EXCEPT !.theta = c.theta - (touches[1][1] - c.lastX) * KRot,
                   !.phi = ClampPhi(c.phi - (touches[1][2] - c.lastY) * KRot),
                   !.lastX = touches[1][1],
                   !.lastY = touches[1][2]]
  ELSE IF Len(touches) = 2
    THEN LET dist == Hypot(touches[1][1] - touches[2][1],
                           touches[1][2] - touches[2][2])
         IN  [c EXCEPT !.radius = c.radius + (c.lastPinchDist - dist) * KPinch,
                       !.lastPinchDist = dist]
  ELSE c

\* mutant: a one-finger drag turns the azimuth the other way
handleTouchMove_mirrored(c, touches) ==
  IF Len(touches) = 1 /\ c.isDragging
    THEN [c EXCEPT !.theta = c.theta + (touches[1][1] - c.lastX) * KRot,
                   !.phi = ClampPhi(c.phi - (touches[1][2] - c.lastY) * KRot),
                   !.lastX = touches[1][1],
                   !.lastY = touches[1][2]]
  ELSE IF Len(touches) = 2
    THEN LET dist == Hypot(touches[1][1] - touches[2][1],
                           touches[1][2] - touches[2][2])
         IN  [c EXCEPT !.radius =
                         ClampRadius(c.radius + (c.lastPinchDist - dist) * KPinch),
                       !.lastPinchDist = dist]
  ELSE c

handleTouchMove(c, touches) ==
  IF Len(touches) = 1 /\ c.isDragging
    THEN LET touch == touches[1]
             deltaX == touch[1] - c.lastX
             deltaY == touch[2] - c.lastY
         IN  [c EXCEPT !.theta = c.theta - deltaX * KRot,
                       !.phi = ClampPhi(c.phi - deltaY * KRot),
                       !.lastX = touch[1],
                       !.lastY = touch[2]]
  ELSE IF Len(touches) = 2
    THEN LET dx == touches[1][1] - touches[2][1]
             dy == touches[1][2] - touches[2][2]
             dist == Hypot(dx, dy)
             deltaDist == c.lastPinchDist - dist
         IN  [c EXCEPT !.radius = ClampRadius(c.radius + deltaDist * KPinch),
                       !.lastPinchDist = dist]
  ELSE c

\* mutant: the end of a touch is ignored
handleTouchEnd_ignored(c) == c

handleTouchEnd(c) == [c EXCEPT !.isDragging = FALSE]

(***************************************************************************)
(* State.                                                                  *)
(*   cam      cameraState.current                                          *)
(*   ev       the event the last step dispatched: its type and its number  *)
(*            of touch points (history)                                    *)
(*   pinchRec the distance between the two touch points of the last        *)
(*            two-finger touchstart or touchmove, -1 before the first      *)
(*            (history)                                                    *)
(*   pinchBegun  whether a two-finger touchstart has been dispatched       *)
(*            (history)                                                    *)
(*   pinchPhase  "pinching" since a two-finger touchstart, "ended" since   *)
(*            the touchend that followed it, "none" since any other        *)
(*            touchstart and at the start (history, followed by SpecPinch) *)
(***************************************************************************)
VARIABLES cam, ev, pinchRec, pinchBegun, pinchPhase

(***************************************************************************)
(* State of the surface side of a renderer.                                *)
(*   variant       which renderer is mounted                               *)
(*   step          "mount" until the surface has been set up, then what    *)
(*                 the last step was: "setup", "frame", "resize", "render" *)
(*                 or "teardown" (history)                                 *)
(*   canvas        canvas.width, canvas.height                             *)
(*   client        canvas.clientWidth, canvas.clientHeight (for the lit    *)
(*                 renderer: window.innerWidth, window.innerHeight)        *)
(*   textures      every depth texture created so far, in order, with its  *)
(*                 size and the number of destroy() calls it received      *)
(*   depthTexture  the index in textures of the variable depthTexture,     *)
(*                 0 while it is unset                                     *)
(*   ubo           the uniform buffer                                      *)
(*   ops           the GPU calls of the last step, in order                *)
(*   rotation      the variable rotation, in 1/100 rad                     *)
(*   seen          the size the depth target was last sized from: the      *)
(*                 client size the last frame read or, before the first    *)
(*                 frame, the size the initial sizing used (history)       *)
(*   again         whether the last step was a frame that read the size    *)
(*                 the previous sizing had read (history)                  *)
(*   attached      whether the component is mounted (canvasRef.current is  *)
(*                 the canvas; after the unmount it is null)               *)
(*   host          what the host will answer: navigator.gpu,               *)
(*                 requestAdapter, requestDevice, getContext("webgpu")     *)
(*   neg           where the effect and its init() stand: "start",         *)
(*                 "adapter" (awaiting requestAdapter), "device" (awaiting *)
(*                  requestDevice), "done", or "render" (the lit renderer  *)
(*                 was rendered again with a new theme and its effect is   *)
(*                 due to run again)                                       *)
(*   raf           the number of animation-frame requests pending          *)
(*   canceled      the flag canceled of the simple variant's effect        *)
(*   live          the GPU buffers, textures, pipelines and bind groups    *)
(*                 created and not destroyed                               *)
(*   ui            what the component shows: the useState values status    *)
(*                 and error (of the simple variant), and whether alert()  *)
(*                 has been called (by the two-viewport variant)           *)
(*   late          whether the teardown came while requestAdapter or       *)
(*                 requestDevice was pending (history)                     *)
(***************************************************************************)
VARIABLES variant, step, canvas, client, textures, depthTexture, ubo, ops,
          rotation, seen, again
VARIABLES attached, host, neg, raf, canceled, live, ui, late

(***************************************************************************)
(* State of the App component and of its initialization chain.             *)
(*   app        the useState values device, tunnelUrl, error, loading,     *)
(*              theme                                                      *)
(*   pc         where the promise chain of the init effect stands          *)
(*   isMounted  the effect's isMounted flag                                *)
(*   env        what the host will answer: navigator.gpu, requestAdapter,  *)
(*              requestDevice, fetch("/api/tunnel") and res.json()         *)
(*   carry      the value or the rejection the chain is carrying to its    *)
(*              next callback                                              *)
(*   shown      the render states the component has been in (history)      *)
(*   pref       the theme preference:                                      *)
(*                item      localStorage's "theme" item, NULL when missing *)
(*                atMount   the item as it was when App mounted (history)  *)
(*                rendered  the theme of the latest render, which is the   *)
(*                          one its effects' closures see                  *)
(*                pc        "load": the mount effects are due; "save": the *)
(*                          [theme] effect of the latest render is due;    *)
(*                          "idle": no effect is due                       *)
(*                early     toggles since the mount that came before the   *)
(*                          load effect (history)                          *)
(*                clicks    toggles since the load effect (history)        *)
(*                loads     how often the page was loaded again (history)  *)
(***************************************************************************)
VARIABLES app, pc, isMounted, env, carry, shown, pref

(***************************************************************************)
(* State of the geometry builder.                                          *)
(*   boxArgs   the arguments x, y, z, w, h, d, r, g, b of a createBox call *)
(*   boxVerts  what the call returned, <<>> before it has run              *)
(*   cubeVerts the vertex array of the simple variant's cube, <<>> before  *)
(*             init() has built it                                         *)
(***************************************************************************)
VARIABLES boxArgs, boxVerts, cubeVerts

(***************************************************************************)
(* State of the lit renderer's scene.                                      *)
(*   theme        the theme prop the effect last ran with                  *)
(*   vertexData   the Float32Array the effect uploaded as vertex buffer,   *)
(*                <<>> before the effect has run                           *)
(*   now          the elapsed time render() last read, in 1/Scale s        *)
(*   modelMatrix  the model matrix render() last computed, column-major,   *)
(*                in 1/Scale; <<>> before the first render()               *)
(*   toggles      how often the theme prop has changed since the mount     *)
(*                (history)                                                *)
(***************************************************************************)
VARIABLES theme, vertexData, now, modelMatrix, toggles

orbitVars == <<cam, ev, pinchRec, pinchBegun, pinchPhase>>
boxVars == <<boxArgs, boxVerts, cubeVerts>>
sceneVars == <<theme, vertexData, now, modelMatrix, toggles>>
appVars == <<app, pc, isMounted, env, carry, shown, pref>>
surfaceVars ==
  <<variant, step, canvas, client, textures, depthTexture, ubo, ops,
    rotation, seen, again, attached, host, neg, raf, canceled, live, ui, late>>
vars == <<orbitVars, surfaceVars, appVars, boxVars, sceneVars>>

Event(type, n) == [type |-> type, touches |-> n]

\* pointer coordinates (clientX, clientY) of mouse and one-finger events
Xs == {0, 100}
Ys == {0, 100}
\* wheel deltaY values
WheelDeltas == {0 - 1000, 1000}
\* one finger lands on the pointer grid
DragPts == {<<x, y>> : x \in Xs, y \in Ys}
\* two fingers: the ends of the hypotenuse of a 3-4-5 triangle, so that
\* Math.hypot is exact in fixed point
PinchPts == {<<0, 0>>, <<60, 80>>}
\* three fingers or more: the handlers read only the number of touches
TouchLists ==
  [1..1 -> DragPts] \cup [1..2 -> PinchPts]
    \cup UNION {[1..n -> {<<0, 0>>}] : n \in 3..MaxTouches}

\* the model follows the azimuth only within MaxTurn radians of its start
InTurn(c) ==
  /\ c.theta - cameraState0.theta <= MaxTurn * Scale
  /\ cameraState0.theta - c.theta <= MaxTurn * Scale

TwoPointDist(touches) ==
  Hypot(touches[1][1] - touches[2][1], touches[1][2] - touches[2][2])

NULL == "null"
\* a host on which WebGPU works
HostOk == [gpu |-> TRUE, adapter |-> "ok", device |-> "ok", context |-> "ok"]
\* the useState values of a renderer before its effect has run
ui0 == [status |-> "Initializing WebGPU...", error |-> NULL, alerted |-> FALSE]

\* the surface side while the model follows another part of the program:
\* the lit renderer, mounted on an 800 x 600 window, its effect not yet run
SurfaceIdle ==
  /\ variant = "lit"
  /\ step = "mount"
  /\ canvas = [width |-> 800, height |-> 600]
  /\ client = [width |-> 800, height |-> 600]
  /\ textures = <<>>
  /\ depthTexture = 0
  /\ ubo = [size |-> 0, data |-> <<>>]
  /\ ops = <<>>
  /\ rotation = 0
  /\ seen = <<>>
  /\ again = FALSE
  /\ attached = TRUE
  /\ host = HostOk
  /\ neg = "start"
  /\ raf = 0
  /\ canceled = FALSE
  /\ live = 0
  /\ ui = ui0
  /\ late = FALSE

\* the camera before any input event
OrbitIdle ==
  /\ cam = cameraState0
  /\ ev = Event("mount", 0)
  /\ pinchRec = 0 - 1
  /\ pinchBegun = FALSE
  /\ pinchPhase = "none"

\* the App component before its init effect has run, on a host with WebGPU
AppIdle ==
  /\ app = [device |-> NULL, tunnelUrl |-> NULL, error |-> "", loading |-> TRUE,
            theme |-> "dark"]
  /\ pc = "start"
  /\ isMounted = TRUE
  /\ env = [gpu |-> TRUE, adapter |-> "ok", device |-> "ok", fetch |-> "url"]
  /\ carry = "undefined"
  /\ shown = {"Loading"}
  /\ pref = [item |-> NULL, atMount |-> NULL, rendered |-> "dark",
             pc |-> "load", early |-> 0, clicks |-> 0, loads |-> 0]

\* the geometry builder before any call
BoxIdle ==
  /\ boxArgs = <<0, 0, 0, 0, 0, 0, 0, 0, 0>>
  /\ boxVerts = <<>>
  /\ cubeVerts = <<>>

\* the scene before the lit renderer's effect has run
SceneIdle ==
  /\ theme = "dark"
  /\ vertexData = <<>>
  /\ now = 0
  /\ modelMatrix = <<>>
  /\ toggles = 0

OrbitInit == SurfaceIdle /\ AppIdle /\ BoxIdle /\ SceneIdle /\ OrbitIdle

MouseDown ==
  \E x \in Xs, y \in Ys :
    /\ cam' = handleMouseDown(cam, x, y)
    /\ ev' = Event("mousedown", 0)
    /\ UNCHANGED <<pinchRec, pinchBegun, surfaceVars, appVars, boxVars, sceneVars>>

MouseUp ==
  /\ cam' = handleMouseUp(cam)
  /\ ev' = Event("mouseup", 0)
  /\ UNCHANGED <<pinchRec, pinchBegun, surfaceVars, appVars, boxVars, sceneVars>>

MouseMove ==
  \E x \in Xs, y \in Ys :
    /\ InTurn(handleMouseMove(cam, x, y))
    /\ cam' = handleMouseMove(cam, x, y)
    /\ ev' = Event("mousemove", 0)
    /\ UNCHANGED <<pinchRec, pinchBegun, surfaceVars, appVars, boxVars, sceneVars>>

Wheel ==
  \E d \in WheelDeltas :
    /\ cam' = handleWheel(cam, d)
    /\ ev' = Event("wheel", 0)
    /\ UNCHANGED <<pinchRec, pinchBegun, surfaceVars, appVars, boxVars, sceneVars>>

TouchStart ==
  \E ts \in TouchLists :
    /\ cam' = handleTouchStart(cam, ts)
    /\ ev' = Event("touchstart", Len(ts))
    /\ pinchRec' = IF Len(ts) = 2 THEN TwoPointDist(ts) ELSE pinchRec
    /\ pinchBegun' = (pinchBegun \/ Len(ts) = 2)
    /\ UNCHANGED <<surfaceVars, appVars, boxVars, sceneVars>>

TouchMove ==
  \E ts \in TouchLists :
    /\ InTurn(handleTouchMove(cam, ts))
    /\ cam' = handleTouchMove(cam, ts)
    /\ ev' = Event("touchmove", Len(ts))
    /\ pinchRec' = IF Len(ts) = 2 THEN TwoPointDist(ts) ELSE pinchRec
    /\ UNCHANGED <<pinchBegun, surfaceVars, appVars, boxVars, sceneVars>>

TouchEnd ==
  /\ cam' = handleTouchEnd(cam)
  /\ ev' = Event("touchend", 0)
  /\ UNCHANGED <<pinchRec, pinchBegun, surfaceVars, appVars, boxVars, sceneVars>>

OrbitNext ==
  \/ MouseDown /\ UNCHANGED pinchPhase
  \/ MouseUp /\ UNCHANGED pinchPhase
  \/ MouseMove /\ UNCHANGED pinchPhase
  \/ Wheel /\ UNCHANGED pinchPhase
  \/ TouchStart /\ UNCHANGED pinchPhase
  \/ TouchMove /\ UNCHANGED pinchPhase
  \/ TouchEnd /\ UNCHANGED pinchPhase

SpecOrbit == OrbitInit /\ [][OrbitNext]_vars

\* pinchPhase after the event e
PhaseAfter(phase, e) ==
  IF e.type = "touchstart"
    THEN (IF e.touches = 2 THEN "pinching" ELSE "none")
  ELSE IF e.type = "touchend" /\ phase = "pinching" THEN "ended"
  ELSE phase

\* the same events, with the phase of the pinch followed
PinchNext ==
  \/ MouseDown /\ pinchPhase' = PhaseAfter(pinchPhase, ev')
  \/ MouseUp /\ pinchPhase' = PhaseAfter(pinchPhase, ev')
  \/ MouseMove /\ pinchPhase' = PhaseAfter(pinchPhase, ev')
  \/ Wheel /\ pinchPhase' = PhaseAfter(pinchPhase, ev')
  \/ TouchStart /\ pinchPhase' = PhaseAfter(pinchPhase, ev')
  \/ TouchMove /\ pinchPhase' = PhaseAfter(pinchPhase, ev')
  \/ TouchEnd /\ pinchPhase' = PhaseAfter(pinchPhase, ev')

SpecPinch == OrbitInit /\ [][PinchNext]_vars

\* mutant: the frame ends a drag
RenderTick_endsDrag ==
  /\ ev' = Event("frame", 0)
  /\ cam' = [cam EXCEPT !.isDragging = FALSE]
  /\ UNCHANGED <<pinchRec, pinchBegun, pinchPhase, surfaceVars, appVars,
                 boxVars, sceneVars>>

\* render() called back for an animation frame, as far as the camera goes:
\* const { theta, phi, radius } = cameraState.current, and no assignment to
\* cameraState.current or to a field of it
RenderTick ==
  /\ ev' = Event("frame", 0)
  /\ cam' = cam
  /\ UNCHANGED <<pinchRec, pinchBegun, pinchPhase, surfaceVars, appVars,
                 boxVars, sceneVars>>

\* the input events and the frames of the lit renderer's loop
ViewNext ==
  \/ OrbitNext
  \/ RenderTick

SpecView == OrbitInit /\ [][ViewNext]_vars

(***************************************************************************)
(* Claims about the orbit camera (SpecOrbit).                              *)
(***************************************************************************)
TwoLists == [1..2 -> PinchPts]

\* d is the Euclidean distance between the two points of ts, to 1/DistScale px
IsEuclidean(d, ts) ==
  LET dx == ts[1][1] - ts[2][1]
      dy == ts[1][2] - ts[2][2]
      sq == DistScale * DistScale * (dx * dx + dy * dy)
  IN  d >= 0 /\ d * d <= sq /\ sq < (d + 1) * (d + 1)

\* C1: after any sequence of mouse, wheel and touch events the polar angle
\* phi satisfies 0.1 <= phi <= pi - 0.1.
C1_PolarInRange ==
  /\ 10 * cam.phi >= Scale
  /\ 10 * cam.phi <= 10 * PI - Scale

\* a drag has pushed the polar angle onto its upper limit
C1_Witness ==
  /\ ev.type \in {"mousemove", "touchmove"}
  /\ cam.isDragging
  /\ 10 * cam.phi = 10 * PI - Scale

\* C2: after any sequence of mouse, wheel and touch events, a two-finger
\* touchmove with no two-finger touchstart before it included, the radius
\* satisfies 2 <= radius <= 50.
C2_RadiusInRange ==
  /\ cam.radius >= 2 * Scale
  /\ cam.radius <= 50 * Scale

\* a two-finger touchmove that no two-finger touchstart preceded has zoomed
\* in to the lower limit
C2_Witness ==
  /\ ev = Event("touchmove", 2)
  /\ ~pinchBegun
  /\ cam.lastPinchDist > 0
  /\ cam.radius = 2 * Scale

\* C3: a wheel event with deltaY = d sets radius to
\* clamp(radius + d * 0.01, 2, 50) and changes no other camera field, dragging
\* or not; from 12 with deltaY 1000 the result is 22, from 45 it is 50.
C3_WheelZoom ==
  [][\A d \in WheelDeltas :
       (ev'.type = "wheel" /\ cam' = handleWheel(cam, d)) =>
         /\ 100 * cam'.radius =
              Max(200 * Scale, Min(5000 * Scale, 100 * cam.radius + d * Scale))
         /\ cam' = [cam EXCEPT !.radius = cam'.radius]
         /\ (cam.radius = 12 * Scale /\ d = 1000) => cam'.radius = 22 * Scale
         /\ (cam.radius = 45 * Scale /\ d = 1000) => cam'.radius = 50 * Scale
    ]_vars

\* a wheel event, received while dragging, has zoomed out to 22
C3_Witness ==
  /\ ev.type = "wheel"
  /\ cam.isDragging
  /\ cam.radius = 22 * Scale

\* C4: while dragging, a pointer move displaced by (dx, dy) from the last
\* recorded position decreases theta by dx * 0.01, sets phi to
\* clamp(phi - dy * 0.01, 0.1, pi - 0.1) and leaves radius unchanged; a drag
\* of (100, 0) decreases theta by 1.0 and leaves phi unchanged.  Mouse path
\* and one-finger touch path alike.
C4_DragRotates ==
  [][\A p \in DragPts :
       ( /\ cam.isDragging
         /\ \/ ev'.type = "mousemove" /\ cam' = handleMouseMove(cam, p[1], p[2])
            \/ ev' = Event("touchmove", 1) /\ cam' = handleTouchMove(cam, <<p>>) )
       => LET dx == p[1] - cam.lastX
              dy == p[2] - cam.lastY
          IN  /\ 100 * cam'.theta = 100 * cam.theta - dx * Scale
              /\ 100 * cam'.phi =
                   Max(10 * Scale,
                       Min(100 * PI - 10 * Scale, 100 * cam.phi - dy * Scale))
              /\ cam'.radius = cam.radius
              /\ (dx = 100 /\ dy = 0) =>
                   (cam'.theta = cam.theta - Scale /\ cam'.phi = cam.phi)
    ]_vars

\* a one-finger touch drag has turned the azimuth one radian down from its
\* initial value, the polar angle still at its initial value
C4_Witness ==
  /\ ev = Event("touchmove", 1)
  /\ cam.isDragging
  /\ cam.theta = cameraState0.theta - Scale
  /\ cam.phi = cameraState0.phi

\* C5: on a two-finger touchmove, radius becomes
\* clamp(radius + (prevDistance - currDistance) * 0.05, 2, 50), currDistance
\* the Euclidean distance between the two touch points and prevDistance the
\* distance recorded by the previous two-finger touchstart or touchmove; the
\* recorded distance becomes currDistance; theta and phi are unchanged.
C5_PinchZoom ==
  [][\A ts \in TwoLists :
       ( /\ ev' = Event("touchmove", 2)
         /\ pinchRec >= 0
         /\ cam' = handleTouchMove(cam, ts) )
       => /\ IsEuclidean(cam'.lastPinchDist, ts)
          /\ 20 * DistScale * cam'.radius =
               Max(2 * 20 * DistScale * Scale,
                   Min(50 * 20 * DistScale * Scale,
                       20 * DistScale * cam.radius
                         + (pinchRec - cam'.lastPinchDist) * Scale))
          /\ cam'.theta = cam.theta
          /\ cam'.phi = cam.phi
    ]_vars

\* a pinch whose start was recorded by a two-finger touchstart has zoomed in
C5_Witness ==
  /\ ev = Event("touchmove", 2)
  /\ pinchBegun
  /\ cam.lastPinchDist = 100 * DistScale
  /\ cam.radius = 7 * Scale


(***************************************************************************)
(* The surface side of the three renderer variants:                        *)
(*   "lit"    the themed, lit boat (orbit camera)                          *)
(*   "simple" the rotating cube                                            *)
(*   "multi"  the two-viewport boat with the minimap                       *)
(* GPU objects are modelled by what the program does to them.  A uniform   *)
(* buffer is its byte size and its contents, one entry per 32-bit float;   *)
(* an entry <<name, k>> is element k of the value called name.             *)
(***************************************************************************)
\* bytes of an f32 (Float32Array.BYTES_PER_ELEMENT)
F32 == 4

\* Float32Array.prototype.set(src, at): at counts elements
SetAt(arr, src, at) ==
  [k \in 1..Len(arr) |->
     IF k > at /\ k <= at + Len(src) THEN src[k - at] ELSE arr[k]]

\* new Float32Array(n), and the contents of a fresh GPU buffer
Zeros(n) == [k \in 1..n |-> <<"0", k>>]
\* a gl-matrix mat4 (16 floats), a vec3, and a 4-float array literal
Mat4(name) == [k \in 1..16 |-> <<name, k>>]
Vec3(name) == [k \in 1..3 |-> <<name, k>>]
Floats4(name) == [k \in 1..4 |-> <<name, k>>]

\* device.createBuffer({size})
createBuffer(size) == [size |-> size, data |-> Zeros(size \div F32)]

\* device.queue.writeBuffer(buffer, byteOffset, data)
writeBuffer(buffer, byteOffset, data) ==
  [buffer EXCEPT !.data = SetAt(buffer.data, data, byteOffset \div F32)]

\* the record of a writeBuffer call in the frame's log
WriteOp(byteOffset, data) ==
  [op |-> "writeBuffer", offset |-> byteOffset, size |-> F32 * Len(data),
   id |-> 0]
GpuOp(name, id) == [op |-> name, offset |-> 0, size |-> 0, id |-> id]

(***************************************************************************)
(* The uniform structs the WGSL shaders declare, and the layout WGSL       *)
(* gives a struct: each member at the next multiple of its alignment, the  *)
(* struct size rounded up to the largest alignment.                        *)
(***************************************************************************)
\* struct Uniforms of the lit shader
LitUniforms ==
  << [name |-> "modelViewProjectionMatrix", type |-> "mat4x4<f32>"],
     [name |-> "normalMatrix", type |-> "mat4x4<f32>"],
     [name |-> "lightDirection", type |-> "vec3<f32>"] >>

\* struct Uniforms of the two-viewport shader
MultiUniforms ==
  << [name |-> "modelViewProjection", type |-> "mat4x4<f32>"],
     [name |-> "color", type |-> "vec4<f32>"] >>

WgslAlign(type) == 16
WgslSize(type) ==
  IF type = "mat4x4<f32>" THEN 64
  ELSE IF type = "vec4<f32>" THEN 16
  ELSE 12

RoundUp(k, n) == ((n + k - 1) \div k) * k

RECURSIVE WgslOffset(_, _)
\* byte offset of member i of struct st
WgslOffset(st, i) ==
  IF i = 1 THEN 0
  ELSE RoundUp(WgslAlign(st[i].type),
               WgslOffset(st, i - 1) + WgslSize(st[i - 1].type))

WgslStructSize(st) ==
  RoundUp(16, WgslOffset(st, Len(st)) + WgslSize(st[Len(st)].type))

(***************************************************************************)
(* Uniform packing of the lit renderer.                                    *)
(***************************************************************************)
\* mutant: the light direction counted as 12 bytes, without its padding
uniformBufferSize_unpadded == 64 + 64 + 12

uniformBufferSize == 64 + 64 + 16

\* render(): uniformData, as written to the uniform buffer
uniformData ==
  SetAt(SetAt(SetAt(Zeros(uniformBufferSize \div F32),
                    Mat4("mvpMatrix"), 0),
              Mat4("normalMatrix"), 16),
        Vec3("lightDir"), 32)

(***************************************************************************)
(* Uniform buffer sizes of the other variants.                             *)
(***************************************************************************)
multiUniformBufferSize == 64 + 16
simpleUniformBufferSize == 64


(***************************************************************************)
(* Depth target and frame of the three variants.                           *)
(***************************************************************************)
\* the variable rotation, an unbounded counter, is followed up to
\* MaxRotation / 100 rad
MaxRotation == 6
\* the depth textures the model lets a run create
MaxTextures == 3

Variants == {"lit", "simple", "multi"}
\* client sizes: collapsed, the default canvas size, a small and a large one
Sizes ==
  { [width |-> 0, height |-> 0], [width |-> 300, height |-> 150],
    [width |-> 100, height |-> 100], [width |-> 800, height |-> 600] }
\* the size of a canvas element that was given no width and height
DefaultCanvas == [width |-> 300, height |-> 150]

\* device.createTexture({size: [canvas.width, canvas.height]})
createTexture(cv) == [width |-> cv.width, height |-> cv.height, destroys |-> 0]

\* resizeDepth() of the simple and the two-viewport variant, run on the
\* textures txs with depthTexture = dt and the canvas cv
resizeDepth(txs, dt, cv) ==
  LET after == IF dt # 0 THEN [txs EXCEPT ![dt].destroys = @ + 1] ELSE txs
      made == Append(after, createTexture(cv))
  IN  [ textures |-> made,
        depthTexture |-> Len(made),
        ops |-> (IF dt # 0 THEN <<GpuOp("destroyTexture", dt)>> ELSE <<>>)
                  \o <<GpuOp("createTexture", Len(made))>> ]

\* mutant: the frame resizes the depth target whatever the size
needsResize_always(cv, w, h) == TRUE

\* frame(): canvas.width !== w || canvas.height !== h
needsResize(cv, w, h) == cv.width # w \/ cv.height # h

\* the four draws of a two-viewport frame: the MVP and color written before
\* each, and its vertex count
MultiDraws ==
  << [mvp |-> "mvp perspective boat", color |-> "red", count |-> 12],
     [mvp |-> "mvp perspective water", color |-> "blue", count |-> 6],
     [mvp |-> "mvp ortho boat", color |-> "yellow", count |-> 12],
     [mvp |-> "mvp ortho water", color |-> "dark blue", count |-> 6] >>

RECURSIVE multiDrawOps_colorOnce(_)
\* mutant: the color is written before the first draw only
multiDrawOps_colorOnce(n) ==
  IF n = 0 THEN <<>>
  ELSE multiDrawOps_colorOnce(n - 1)
         \o << WriteOp(0, Mat4(MultiDraws[n].mvp)) >>
         \o (IF n = 1 THEN <<WriteOp(64, Floats4(MultiDraws[n].color))>>
                       ELSE <<>>)
         \o << GpuOp("draw", MultiDraws[n].count) >>

RECURSIVE multiDrawOps(_)
\* the writeBuffer and draw calls of the first n draws of a two-viewport frame
multiDrawOps(n) ==
  IF n = 0 THEN <<>>
  ELSE multiDrawOps(n - 1)
         \o << WriteOp(0, Mat4(MultiDraws[n].mvp)),
               WriteOp(64, Floats4(MultiDraws[n].color)),
               GpuOp("draw", MultiDraws[n].count) >>

RECURSIVE multiDrawWrites(_, _)
\* the uniform buffer after the writes of the first n draws
multiDrawWrites(buffer, n) ==
  IF n = 0 THEN buffer
  ELSE writeBuffer(
         writeBuffer(multiDrawWrites(buffer, n - 1), 0, Mat4(MultiDraws[n].mvp)),
         64, Floats4(MultiDraws[n].color))

\* frame() of the two-viewport variant: the main view's
\* setViewport(0, 0, canvas.width, canvas.height, 0, 1)
mainViewport(cv) == [x |-> 0, y |-> 0, width |-> cv.width, height |-> cv.height]

\* and the minimap's, with mapSize = 200:
\* setViewport(20, canvas.height - mapSize - 20, mapSize, mapSize, 0, 1)
minimapViewport(cv) ==
  [x |-> 20, y |-> cv.height - 200 - 20, width |-> 200, height |-> 200]

\* what the draws of a submitted command buffer read from the uniform buffer
\* buffer: a draw is recorded by the pass encoder and carried out when
\* queue.submit() hands the command buffer over, whereas queue.writeBuffer()
\* is carried out on the queue when it is called; so every draw of the frame
\* reads what the buffer holds at the submit
executedUniforms(buffer) ==
  [ mvp |-> SubSeq(buffer.data, 1, 16), color |-> SubSeq(buffer.data, 17, 20) ]

\* hosts: WebGPU works, or one step of the initialization fails
Hosts ==
  { HostOk,
    [HostOk EXCEPT !.gpu = FALSE],
    [HostOk EXCEPT !.adapter = "null"],
    [HostOk EXCEPT !.device = "reject"],
    [HostOk EXCEPT !.context = "null"] }

\* the buffers, pipeline, bind group and depth texture one setup creates
ResourcesOf(v) == IF v = "multi" THEN 6 ELSE 5

\* err.message of the error the initialization fails with on host h
ErrorMessage(h) ==
  IF h.adapter = "null" THEN "No GPU adapter found."
  ELSE IF h.device = "reject" THEN "requestDevice rejected"
  ELSE "TypeError: context is null"

SurfaceInit ==
  /\ OrbitIdle /\ AppIdle /\ BoxIdle /\ SceneIdle
  /\ variant \in Variants
  /\ step = "mount"
  /\ client \in Sizes
  /\ canvas = IF variant = "lit" THEN client ELSE DefaultCanvas
  /\ textures = <<>>
  /\ depthTexture = 0
  /\ ubo = [size |-> 0, data |-> <<>>]
  /\ ops = <<>>
  /\ rotation = 0
  /\ seen = <<>>
  /\ again = FALSE
  /\ attached = TRUE
  \* the lit renderer is rendered only once App holds a device
  /\ host \in IF variant = "lit"
                THEN {HostOk, [HostOk EXCEPT !.context = "null"]}
                ELSE Hosts
  /\ neg = "start"
  /\ raf = 0
  /\ canceled = FALSE
  /\ live = 0
  /\ ui = ui0
  /\ late = FALSE

\* mutant: no cleanup cancels the pending request
cleanupRaf_none(v, pending) == pending

\* the pending animation-frame requests after the effect's cleanup: the lit
\* and the simple variant cancel the request they hold the id of, the
\* two-viewport variant's effect returns no cleanup
cleanupRaf(v, pending) ==
  IF v \in {"lit", "simple"} THEN Max(pending - 1, 0) ELSE pending

\* the lit renderer is rendered again because the theme prop changed: the
\* canvas takes width={window.innerWidth} and height={window.innerHeight} of
\* this render.  The effect is due to run again, after the next paint; the
\* loop of the previous run is called back until then.
RerenderLit ==
  /\ variant = "lit"
  /\ attached
  /\ neg = "done"
  /\ raf > 0
  /\ Len(textures) < MaxTextures
  /\ canvas' = client
  /\ neg' = "render"
  /\ step' = "render"
  /\ ops' = <<>>
  /\ UNCHANGED <<variant, client, textures, depthTexture, ubo, rotation, seen,
                 again, attached, host, raf, canceled, live, ui, late>>

\* the lit renderer's effect: buffers, pipeline, one depth texture of the
\* canvas size, and the first render().  It runs at the mount and, after the
\* cleanup of its previous run, when theme or device have changed.
SetupLit ==
  /\ variant = "lit"
  /\ attached
  /\ neg \in {"start", "render"}
  /\ host.context = "ok"
  /\ textures' = Append(textures, createTexture(canvas))
  /\ depthTexture' = Len(textures) + 1
  /\ ubo' = writeBuffer(createBuffer(uniformBufferSize), 0, uniformData)
  /\ ops' = << GpuOp("createTexture", Len(textures) + 1),
               WriteOp(0, uniformData),
               GpuOp("beginRenderPass", Len(textures) + 1), GpuOp("draw", 180),
               GpuOp("submit", 0), GpuOp("requestAnimationFrame", 0) >>
  /\ step' = "setup"
  /\ neg' = "done"
  /\ raf' = cleanupRaf(variant, raf) + 1
  /\ live' = live + ResourcesOf(variant)
  /\ UNCHANGED <<variant, canvas, client, rotation, seen, again, attached, host,
                 canceled, ui, late>>

\* the lit renderer's effect when getContext("webgpu") returns null
NoContextLit ==
  /\ variant = "lit"
  /\ attached
  /\ neg = "start"
  /\ host.context = "null"
  /\ neg' = "done"
  /\ UNCHANGED <<variant, step, canvas, client, textures, depthTexture, ubo,
                 ops, rotation, seen, again, attached, host, raf, canceled,
                 live, ui, late>>

\* the effect of the simple and the two-viewport variant: the feature check,
\* then init() up to its first await
EffectStart ==
  /\ variant \in {"simple", "multi"}
  /\ attached
  /\ neg = "start"
  /\ IF host.gpu
       THEN neg' = "adapter" /\ UNCHANGED ui
       ELSE /\ neg' = "done"
            /\ ui' = IF variant = "simple"
                       THEN [ui EXCEPT !.error =
                               "WebGPU is not supported in this browser."]
                       ELSE [ui EXCEPT !.alerted = TRUE]
  /\ UNCHANGED <<variant, step, canvas, client, textures, depthTexture, ubo,
                 ops, rotation, seen, again, attached, host, raf, canceled,
                 live, late>>

\* requestAdapter() resolves with an adapter and init() calls requestDevice()
AdapterResolves ==
  /\ neg = "adapter"
  /\ host.adapter = "ok"
  /\ neg' = "device"
  /\ UNCHANGED <<variant, step, canvas, client, textures, depthTexture, ubo,
                 ops, rotation, seen, again, attached, host, raf, canceled,
                 live, ui, late>>

\* init() throws: no adapter, requestDevice() rejected, or configure() on a
\* null context.  The simple variant catches and calls setError; the
\* two-viewport variant's caller logs to the console.
InitFails ==
  /\ \/ neg = "adapter" /\ host.adapter = "null"
     \/ neg = "device" /\ host.device = "reject"
     \/ neg = "device" /\ host.device = "ok" /\ attached /\ host.context = "null"
  /\ neg' = "done"
  /\ ui' = IF variant = "simple"
             THEN [ui EXCEPT !.error = ErrorMessage(host)]
             ELSE ui
  /\ UNCHANGED <<variant, step, canvas, client, textures, depthTexture, ubo,
                 ops, rotation, seen, again, attached, host, raf, canceled,
                 live, late>>

\* requestDevice() resolves after the unmount: canvasRef.current is null and
\* init() returns
InitAbandoned ==
  /\ neg = "device"
  /\ host.device = "ok"
  /\ ~attached
  /\ neg' = "done"
  /\ UNCHANGED <<variant, step, canvas, client, textures, depthTexture, ubo,
                 ops, rotation, seen, again, attached, host, raf, canceled,
                 live, ui, late>>

\* init() of the simple variant, once adapter and device are there
SetupSimple ==
  /\ variant = "simple"
  /\ neg = "device" /\ host.device = "ok" /\ attached /\ host.context = "ok"
  /\ canvas' = client
  /\ LET r == resizeDepth(textures, depthTexture, client)
     IN  /\ textures' = r.textures
         /\ depthTexture' = r.depthTexture
         /\ ops' = r.ops \o <<GpuOp("requestAnimationFrame", 0)>>
  /\ ubo' = createBuffer(simpleUniformBufferSize)
  /\ seen' = client
  /\ step' = "setup"
  /\ neg' = "done"
  /\ raf' = raf + 1
  /\ live' = live + ResourcesOf(variant)
  /\ ui' = [ui EXCEPT !.status = "Running"]
  /\ UNCHANGED <<variant, client, rotation, again, attached, host, canceled,
                 late>>

\* init() of the two-viewport variant, once adapter and device are there
SetupMulti ==
  /\ variant = "multi"
  /\ neg = "device" /\ host.device = "ok" /\ attached /\ host.context = "ok"
  /\ LET r == resizeDepth(textures, depthTexture, canvas)
     IN  /\ textures' = r.textures
         /\ depthTexture' = r.depthTexture
         /\ ops' = r.ops \o <<GpuOp("requestAnimationFrame", 0)>>
  /\ ubo' = createBuffer(multiUniformBufferSize)
  /\ seen' = canvas
  /\ step' = "setup"
  /\ neg' = "done"
  /\ raf' = raf + 1
  /\ live' = live + ResourcesOf(variant)
  /\ UNCHANGED <<variant, canvas, client, rotation, again, attached, host,
                 canceled, ui, late>>

\* the browser calls the pending animation-frame callback
Running == raf > 0

\* render() of the lit renderer
FrameLit ==
  /\ variant = "lit"
  /\ Running
  /\ ubo' = writeBuffer(ubo, 0, uniformData)
  /\ ops' = << WriteOp(0, uniformData), GpuOp("beginRenderPass", depthTexture),
               GpuOp("draw", 180), GpuOp("submit", 0),
               GpuOp("requestAnimationFrame", 0) >>
  /\ step' = "frame"
  /\ raf' = (raf - 1) + 1
  /\ UNCHANGED <<variant, canvas, client, textures, depthTexture, rotation,
                 seen, again, attached, host, neg, canceled, live, ui, late>>

\* the resize handling shared by frame() of the simple and the two-viewport
\* variant; r is the outcome of resizeDepth(), used when the size changed
FrameResize(r) ==
  IF needsResize(canvas, client.width, client.height)
    THEN /\ Len(textures) < MaxTextures
         /\ canvas' = client
         /\ textures' = r.textures
         /\ depthTexture' = r.depthTexture
    ELSE UNCHANGED <<canvas, textures, depthTexture>>

ResizeOps(r) ==
  IF needsResize(canvas, client.width, client.height) THEN r.ops ELSE <<>>

\* what one frame adds to the variable rotation, in 1/100 rad: rotation += 0.02
\* in the simple variant, rotation += 0.01 in the two-viewport variant; the
\* lit renderer has no such variable
rotationStep(v) == IF v = "simple" THEN 2 ELSE IF v = "multi" THEN 1 ELSE 0

\* frame() of the simple variant
FrameSimple ==
  /\ variant = "simple"
  /\ Running
  /\ ~canceled
  /\ LET r == resizeDepth(textures, depthTexture, client)
     IN  /\ FrameResize(r)
         /\ ops' = ResizeOps(r)
                     \o << WriteOp(0, Mat4("mvpMatrix")),
                           GpuOp("beginRenderPass", depthTexture'),
                           GpuOp("draw", 36), GpuOp("submit", 0),
                           GpuOp("requestAnimationFrame", 0) >>
  /\ rotation + rotationStep(variant) <= MaxRotation
  /\ rotation' = rotation + rotationStep(variant)
  /\ ubo' = writeBuffer(ubo, 0, Mat4("mvpMatrix"))
  /\ seen' = client
  /\ again' = (seen = client)
  /\ step' = "frame"
  /\ raf' = (raf - 1) + 1
  /\ UNCHANGED <<variant, client, attached, host, neg, canceled, live, ui, late>>

\* frame() of the two-viewport variant
FrameMulti ==
  /\ variant = "multi"
  /\ Running
  /\ LET r == resizeDepth(textures, depthTexture, client)
     IN  /\ FrameResize(r)
         /\ ops' = ResizeOps(r)
                     \o <<GpuOp("beginRenderPass", depthTexture')>>
                     \o multiDrawOps(Len(MultiDraws))
                     \o <<GpuOp("submit", 0), GpuOp("requestAnimationFrame", 0)>>
  /\ rotation + rotationStep(variant) <= MaxRotation
  /\ rotation' = rotation + rotationStep(variant)
  /\ ubo' = multiDrawWrites(ubo, Len(MultiDraws))
  /\ seen' = client
  /\ again' = (seen = client)
  /\ step' = "frame"
  /\ raf' = (raf - 1) + 1
  /\ UNCHANGED <<variant, client, attached, host, neg, canceled, live, ui, late>>

\* the page layout (or the window) changes size between two frames
ClientResize ==
  /\ step # "mount"
  /\ attached
  /\ \E sz \in Sizes :
       /\ sz # client
       /\ client' = sz
  /\ step' = "resize"
  /\ ops' = <<>>
  /\ UNCHANGED <<variant, canvas, textures, depthTexture, ubo, rotation, seen,
                 again, attached, host, neg, raf, canceled, live, ui, late>>

\* the component is unmounted: the effect's cleanup runs and the canvas
\* leaves the document (its client size is 0 x 0 from then on)
Teardown ==
  /\ attached
  /\ neg # "start"
  /\ attached' = FALSE
  /\ raf' = cleanupRaf(variant, raf)
  /\ canceled' = IF variant = "simple" /\ host.gpu THEN TRUE ELSE canceled
  /\ late' = (neg \in {"adapter", "device"})
  /\ client' = [width |-> 0, height |-> 0]
  /\ step' = IF step = "mount" THEN "mount" ELSE "teardown"
  /\ ops' = <<>>
  /\ UNCHANGED <<variant, canvas, textures, depthTexture, ubo, rotation, seen,
                 again, host, neg, live, ui>>

SurfaceNext ==
  \/ RerenderLit /\ UNCHANGED <<orbitVars, appVars, boxVars, sceneVars>>
  \/ SetupLit /\ UNCHANGED <<orbitVars, appVars, boxVars, sceneVars>>
  \/ NoContextLit /\ UNCHANGED <<orbitVars, appVars, boxVars, sceneVars>>
  \/ EffectStart /\ UNCHANGED <<orbitVars, appVars, boxVars, sceneVars>>
  \/ AdapterResolves /\ UNCHANGED <<orbitVars, appVars, boxVars, sceneVars>>
  \/ InitFails /\ UNCHANGED <<orbitVars, appVars, boxVars, sceneVars>>
  \/ InitAbandoned /\ UNCHANGED <<orbitVars, appVars, boxVars, sceneVars>>
  \/ SetupSimple /\ UNCHANGED <<orbitVars, appVars, boxVars, sceneVars>>
  \/ SetupMulti /\ UNCHANGED <<orbitVars, appVars, boxVars, sceneVars>>
  \/ FrameLit /\ UNCHANGED <<orbitVars, appVars, boxVars, sceneVars>>
  \/ FrameSimple /\ UNCHANGED <<orbitVars, appVars, boxVars, sceneVars>>
  \/ FrameMulti /\ UNCHANGED <<orbitVars, appVars, boxVars, sceneVars>>
  \/ ClientResize /\ UNCHANGED <<orbitVars, appVars, boxVars, sceneVars>>
  \/ Teardown /\ UNCHANGED <<orbitVars, appVars, boxVars, sceneVars>>

SpecSurface == SurfaceInit /\ [][SurfaceNext]_vars


(***************************************************************************)
(* Claims about the uniform block and the depth target (SpecSurface).      *)
(***************************************************************************)
\* the writeBuffer calls among the GPU calls of the last step
Writes == SelectSeq(ops, LAMBDA o : o.op = "writeBuffer")

\* entries first+1 .. first+n of the uniform buffer hold elements 1 .. n of
\* one value, whose name is in names
Holds(first, n, names) ==
  /\ first + n <= Len(ubo.data)
  /\ ubo.data[first + 1][1] \in names
  /\ \A k \in 1..n : ubo.data[first + k] = <<ubo.data[first + 1][1], k>>

\* C9: the uniform block has a fixed byte size that matches the shader's
\* struct.  Lit variant: 144 bytes, the MVP matrix at byte 0, the normal
\* matrix at byte 64, the light direction at byte 128, and every frame writes
\* all 144 bytes in one write.  Two-viewport variant: 80 bytes, the MVP at
\* byte 0 and the color at byte 64.
C9_UniformLayout ==
  /\ (variant = "lit" /\ step # "mount") =>
       /\ ubo.size = 144
       /\ ubo.size = WgslStructSize(LitUniforms)
       /\ WgslOffset(LitUniforms, 1) = 0
       /\ WgslOffset(LitUniforms, 2) = 64
       /\ WgslOffset(LitUniforms, 3) = 128
       /\ Holds(0 \div 4, 16, {"mvpMatrix"})
       /\ Holds(64 \div 4, 16, {"normalMatrix"})
       /\ Holds(128 \div 4, 3, {"lightDir"})
       /\ step \in {"setup", "frame"} =>
            /\ Len(Writes) = 1
            /\ Writes[1].offset = 0
            /\ Writes[1].size = 144
  /\ (variant = "multi" /\ step # "mount") =>
       /\ ubo.size = 80
       /\ ubo.size = WgslStructSize(MultiUniforms)
       /\ WgslOffset(MultiUniforms, 1) = 0
       /\ WgslOffset(MultiUniforms, 2) = 64
       /\ \A i \in 1..Len(Writes) :
            \/ Writes[i].offset = 0 /\ Writes[i].size = 64
            \/ Writes[i].offset = 64 /\ Writes[i].size = 16
       /\ rotation > 0 =>
            /\ Holds(0 \div 4, 16, {MultiDraws[i].mvp : i \in 1..Len(MultiDraws)})
            /\ Holds(64 \div 4, 4, {MultiDraws[i].color : i \in 1..Len(MultiDraws)})

\* the lit renderer has rendered a frame after a change of the window size
C9_Witness ==
  /\ variant = "lit"
  /\ step = "frame"
  /\ client # canvas
  /\ Len(Writes) = 1

\* C10: running the resize path twice with the same surface dimensions
\* destroys and creates no depth target the second time, and the depth-target
\* dimensions are the same after both runs.
C10_ResizeIdempotent ==
  [][( /\ variant \in {"simple", "multi"}
       /\ step' = "frame"
       /\ seen = client )
     => /\ textures' = textures
        /\ depthTexture' = depthTexture
        /\ textures'[depthTexture'].width = textures[depthTexture].width
        /\ textures'[depthTexture'].height = textures[depthTexture].height
        /\ \A i \in 1..Len(ops') :
             ops'[i].op \notin {"createTexture", "destroyTexture"}
    ]_vars

\* the two-viewport variant has resized its depth target in one frame and then
\* run a frame that read the same size again
C10_Witness ==
  /\ variant = "multi"
  /\ step = "frame"
  /\ again
  /\ Len(textures) = 2
  /\ textures[1].destroys = 1
  /\ textures[2].destroys = 0


(***************************************************************************)
(* The App component: its init effect and its render states.               *)
(***************************************************************************)
\* a tunnel URL as /api/tunnel returns it
TunnelUrl == "https://tunnel.example"

\* mutant: the resolved device is never stored
thenDevice_dropped(a, mounted, gpuDevice) == a

\* .then((gpuDevice) => { if (isMounted) setDevice(gpuDevice) })
thenDevice(a, mounted, gpuDevice) ==
  IF mounted THEN [a EXCEPT !.device = gpuDevice] ELSE a

\* mutant: the failure is logged and not stored
catchInit_silent(a, mounted, message) == a

\* mutant: the failure ends the loading state at once
catchInit_endsLoading(a, mounted, message) ==
  IF mounted THEN [a EXCEPT !.error = message, !.loading = FALSE] ELSE a

\* .catch((err) => { if (isMounted) setError(err.message); return fetch(..) })
catchInit(a, mounted, message) ==
  IF mounted THEN [a EXCEPT !.error = message] ELSE a

\* .then((data) => { if (isMounted && data?.url) setTunnelUrl(data.url) });
\* url is data?.url, NULL when it is null or undefined
thenTunnel(a, mounted, url) ==
  IF mounted /\ url # NULL /\ url # "" THEN [a EXCEPT !.tunnelUrl = url] ELSE a

\* mutant: the end of the chain leaves loading as it is
finallyDone_skipped(a, mounted) == a

\* .finally(() => { if (isMounted) setLoading(false) })
finallyDone(a, mounted) ==
  IF mounted THEN [a EXCEPT !.loading = FALSE] ELSE a

\* mutant: the toggle also clears the error
toggleTheme_clearsError(a) ==
  [a EXCEPT !.theme = IF @ = "dark" THEN "light" ELSE "dark", !.error = ""]

\* setTheme((prev) => (prev === "dark" ? "light" : "dark"))
toggleTheme(a) == [a EXCEPT !.theme = IF @ = "dark" THEN "light" ELSE "dark"]

\* the render states of App, in the order the component tests them
Display(a) ==
  IF a.loading THEN "Loading"
  ELSE IF a.error # "" /\ a.tunnelUrl # NULL THEN "ErrorTunnel"
  ELSE IF a.error # "" THEN "Error"
  ELSE IF a.device # NULL THEN "Ready"
  ELSE "Blank"

Envs ==
  [ gpu : BOOLEAN,
    adapter : {"ok", "null", "rejected"},
    device : {"ok", "null", "rejected"},
    fetch : {"rejected", "notOk", "badJson", "nullUrl", "url"} ]

AppInit ==
  /\ OrbitIdle /\ SurfaceIdle /\ BoxIdle /\ SceneIdle
  /\ app = [device |-> NULL, tunnelUrl |-> NULL, error |-> "", loading |-> TRUE,
            theme |-> "dark"]
  /\ pc = "start"
  /\ isMounted = TRUE
  /\ env \in Envs
  /\ carry = "undefined"
  /\ shown = {"Loading"}
  /\ pref = [item |-> NULL, atMount |-> NULL, rendered |-> "dark",
             pc |-> "load", early |-> 0, clicks |-> 0, loads |-> 0]

\* app, pc and carry become a, p and c; the new render state is recorded
Chain(a, p, c) ==
  /\ app' = a
  /\ pc' = p
  /\ carry' = c
  /\ shown' = shown \cup {Display(a)}
  /\ UNCHANGED <<isMounted, env, pref>>

\* the effect runs: initWebGPU() up to its first await
Start ==
  /\ pc = "start"
  /\ IF env.gpu
       THEN Chain(app, "adapter", "undefined")
       ELSE Chain(app, "catch1", "WebGPU no esta soportado en este navegador")

\* navigator.gpu.requestAdapter() settles
AdapterSettles ==
  /\ pc = "adapter"
  /\ IF env.adapter = "ok" THEN Chain(app, "device", "undefined")
     ELSE IF env.adapter = "null"
       THEN Chain(app, "catch1", "No se encontro un adaptador GPU")
     ELSE Chain(app, "catch1", "requestAdapter rejected")

\* adapter.requestDevice() settles
DeviceSettles ==
  /\ pc = "device"
  /\ IF env.device = "ok" THEN Chain(app, "then1", "GPUDevice")
     ELSE IF env.device = "null"
       THEN Chain(app, "catch1", "No se pudo obtener el dispositivo GPU")
     ELSE Chain(app, "catch1", "requestDevice rejected")

Then1 ==
  /\ pc = "then1"
  /\ Chain(thenDevice(app, isMounted, carry), "then2", "undefined")

Catch1 ==
  /\ pc = "catch1"
  /\ Chain(catchInit(app, isMounted, carry), "fetch", "undefined")

\* fetch("/api/tunnel") settles
FetchSettles ==
  /\ pc = "fetch"
  /\ IF env.fetch = "rejected" THEN Chain(app, "catch2", "fetch rejected")
     ELSE IF env.fetch = "notOk" THEN Chain(app, "then2", "response not ok")
     ELSE Chain(app, "then2", "response ok")

\* .then((res) => { if (res && res.ok) return res.json() })
Then2 ==
  /\ pc = "then2"
  /\ IF carry = "response ok" THEN Chain(app, "json", "undefined")
     ELSE Chain(app, "then3", NULL)

\* res.json() settles
JsonSettles ==
  /\ pc = "json"
  /\ IF env.fetch = "badJson" THEN Chain(app, "catch2", "json rejected")
     ELSE IF env.fetch = "url" THEN Chain(app, "then3", TunnelUrl)
     ELSE Chain(app, "then3", NULL)

Then3 ==
  /\ pc = "then3"
  /\ Chain(thenTunnel(app, isMounted, carry), "finally", "undefined")

\* .catch((err) => console.error("Error fetching tunnel:", err))
Catch2 ==
  /\ pc = "catch2"
  /\ Chain(app, "finally", "undefined")

Finally ==
  /\ pc = "finally"
  /\ Chain(finallyDone(app, isMounted), "done", "undefined")

\* the effect's cleanup
Unmount ==
  /\ pc # "start"
  /\ isMounted
  /\ isMounted' = FALSE
  /\ UNCHANGED <<app, pc, env, carry, shown, pref>>

AppChain ==
  \/ Start
  \/ AdapterSettles
  \/ DeviceSettles
  \/ Then1
  \/ Catch1
  \/ FetchSettles
  \/ Then2
  \/ JsonSettles
  \/ Then3
  \/ Catch2
  \/ Finally

\* a click on the theme button, which every render state shows
ToggleTheme ==
  /\ isMounted
  /\ app' = toggleTheme(app)
  /\ shown' = shown \cup {Display(toggleTheme(app))}
  /\ UNCHANGED <<pc, isMounted, env, carry>>

AppNext ==
  \/ AppChain /\ UNCHANGED <<orbitVars, surfaceVars, boxVars, sceneVars>>
  \/ ToggleTheme /\ UNCHANGED <<pref, orbitVars, surfaceVars, boxVars, sceneVars>>
  \/ Unmount /\ UNCHANGED <<orbitVars, surfaceVars, boxVars, sceneVars>>

SpecApp == AppInit /\ [][AppNext]_vars

\* the host runs every callback that is due, and every request the chain
\* started settles
SpecAppFair ==
  SpecApp /\ WF_vars(AppChain /\ UNCHANGED <<orbitVars, surfaceVars, boxVars, sceneVars>>)

(***************************************************************************)
(* The theme preference of App: the state hook, the two theme effects and  *)
(* localStorage's "theme" item.                                            *)
(***************************************************************************)
MaxClicks == 3
MaxReloads == 2

\* what localStorage.getItem("theme") can return at a mount: null, the two
\* themes, and a string that is neither
Stored == {NULL, "light", "dark", "blue"}

\* mutant: the load effect leaves the theme alone
loadTheme_ignored(a, savedTheme) == a

\* if (savedTheme === "light" || savedTheme === "dark") setTheme(savedTheme)
loadTheme(a, savedTheme) ==
  IF savedTheme = "light" \/ savedTheme = "dark"
    THEN [a EXCEPT !.theme = savedTheme]
    ELSE a

\* App mounts over whatever localStorage holds; its first render is done
ThemeInit ==
  /\ OrbitIdle /\ SurfaceIdle /\ BoxIdle /\ SceneIdle
  /\ app = [device |-> NULL, tunnelUrl |-> NULL, error |-> "", loading |-> TRUE,
            theme |-> "dark"]
  /\ pc = "start"
  /\ isMounted = TRUE
  /\ env = [gpu |-> TRUE, adapter |-> "ok", device |-> "ok", fetch |-> "url"]
  /\ carry = "undefined"
  /\ shown = {"Loading"}
  /\ \E saved \in Stored :
       pref = [item |-> saved, atMount |-> saved, rendered |-> "dark",
               pc |-> "load", early |-> 0, clicks |-> 0, loads |-> 0]

\* the [] effect of the first render: it reads the item and may set the theme
LoadTheme ==
  /\ pref.pc = "load"
  /\ app' = loadTheme(app, pref.item)
  /\ pref' = [pref EXCEPT !.pc = "save"]
  /\ UNCHANGED <<pc, isMounted, env, carry, shown>>

\* the [theme] effect of the latest render: it stores the theme of that render
SaveTheme ==
  /\ pref.pc = "save"
  /\ pref' = [pref EXCEPT !.item = pref.rendered, !.pc = "idle"]
  /\ UNCHANGED <<app, pc, isMounted, env, carry, shown>>

\* the theme state differs from the rendered one: App renders again, and
\* the [theme] effect of that render becomes due
RenderTheme ==
  /\ pref.pc = "idle"
  /\ app.theme # pref.rendered
  /\ pref' = [pref EXCEPT !.rendered = app.theme, !.pc = "save"]
  /\ UNCHANGED <<app, pc, isMounted, env, carry, shown>>

\* a click on the theme button, counted
ClickTheme ==
  /\ pref.early + pref.clicks < MaxClicks
  /\ ToggleTheme
  /\ pref' = IF pref.pc = "load"
               THEN [pref EXCEPT !.early = @ + 1]
               ELSE [pref EXCEPT !.clicks = @ + 1]

\* the page is loaded again: a new App mounts with useState("dark") over the
\* item the old page left
Reload ==
  /\ pref.loads < MaxReloads
  /\ app' = [app EXCEPT !.theme = "dark"]
  /\ pref' = [item |-> pref.item, atMount |-> pref.item, rendered |-> "dark",
              pc |-> "load", early |-> 0, clicks |-> 0,
              loads |-> pref.loads + 1]
  /\ UNCHANGED <<pc, isMounted, env, carry, shown>>

ThemeNext ==
  \/ LoadTheme /\ UNCHANGED <<orbitVars, surfaceVars, boxVars, sceneVars>>
  \/ SaveTheme /\ UNCHANGED <<orbitVars, surfaceVars, boxVars, sceneVars>>
  \/ RenderTheme /\ UNCHANGED <<orbitVars, surfaceVars, boxVars, sceneVars>>
  \/ ClickTheme /\ UNCHANGED <<orbitVars, surfaceVars, boxVars, sceneVars>>
  \/ Reload /\ UNCHANGED <<orbitVars, surfaceVars, boxVars, sceneVars>>

SpecTheme == ThemeInit /\ [][ThemeNext]_vars

(***************************************************************************)
(* Claims about the App initialization chain.                              *)
(***************************************************************************)
GpuSucceeds == env.gpu /\ env.adapter = "ok" /\ env.device = "ok"
Ready == ~app.loading /\ app.device # NULL /\ app.error = ""

\* C6: when the GPU capability is present and adapter and device negotiation
\* both succeed, the application goes from Loading (loading, no device) to
\* Ready (not loading, device populated, error empty), unless it is unmounted
\* first, and on that path error and tunnelUrl are never set.
C6_LoadingToReady ==
  /\ [](GpuSucceeds =>
          /\ app.error = ""
          /\ app.tunnelUrl = NULL
          /\ shown \subseteq {"Loading", "Ready"}
          /\ pc = "start" => (app.loading /\ app.device = NULL)
          /\ ~app.loading => Ready)
  /\ ((GpuSucceeds /\ pc = "start") ~> (Ready \/ ~isMounted))

\* the chain has run to its end on a host whose negotiation succeeds, and the
\* mounted application is Ready
C6_Witness ==
  /\ GpuSucceeds
  /\ isMounted
  /\ pc = "done"
  /\ Ready
  /\ shown = {"Loading", "Ready"}

\* C7 as stated: with the GPU capability absent and a tunnel URL that
\* resolves, the Error state (not loading, error set, no tunnelUrl) shows
\* before the Error+TunnelAvailable state.
C7_ErrorShownBeforeTunnel ==
  (~env.gpu /\ Display(app) = "ErrorTunnel") => "Error" \in shown

\* C7, amended: with the GPU capability absent the application shows Loading
\* until the fallback request has settled; error is set first and tunnelUrl
\* second, both while loading still holds, so that a tunnel URL that resolves
\* takes Loading straight to Error+TunnelAvailable and the Error state shows
\* only when no tunnel URL was obtained.
C7_LoadingUntilFallbackSettled ==
  ~env.gpu =>
    /\ ~app.loading => pc = "done"
    /\ app.tunnelUrl # NULL => (app.error # "" /\ env.fetch = "url")
    /\ Display(app) = "ErrorTunnel" => shown = {"Loading", "ErrorTunnel"}
    /\ Display(app) = "Error" =>
         (shown = {"Loading", "Error"} /\ env.fetch # "url")
    /\ shown \in {{"Loading"}, {"Loading", "ErrorTunnel"}, {"Loading", "Error"}}

\* without the GPU capability, the tunnel URL has resolved and the application
\* shows Error+TunnelAvailable
C7_Witness ==
  /\ ~env.gpu
  /\ isMounted
  /\ Display(app) = "ErrorTunnel"
  /\ app.tunnelUrl = TunnelUrl


(***************************************************************************)
(* The geometry builder.  createBox takes its center and size in some      *)
(* unit and halves the size; the model keeps the halves exact by counting  *)
(* the positions it returns in half that unit (x - w/2 is 2x - w halves).  *)
(* Colors and normals are returned as given.                               *)
(***************************************************************************)
\* mutant: the last vertex of the bottom face carries the top face's normal
createBox_badNormal(x, y, z, w, h, d, r, g, b) ==
  LET x1 == 2 * x - w
      x2 == 2 * x + w
      y1 == 2 * y - h
      y2 == 2 * y + h
      z1 == 2 * z - d
      z2 == 2 * z + d
  IN
      \* Front
      <<x1, y1, z2, r, g, b, 0, 0, 1>>
      \o <<x2, y1, z2, r, g, b, 0, 0, 1>>
      \o <<x2, y2, z2, r, g, b, 0, 0, 1>>
      \o <<x1, y1, z2, r, g, b, 0, 0, 1>>
      \o <<x2, y2, z2, r, g, b, 0, 0, 1>>
      \o <<x1, y2, z2, r, g, b, 0, 0, 1>>
      \* Back
      \o <<x2, y1, z1, r, g, b, 0, 0, 0 - 1>>
      \o <<x1, y1, z1, r, g, b, 0, 0, 0 - 1>>
      \o <<x1, y2, z1, r, g, b, 0, 0, 0 - 1>>
      \o <<x2, y1, z1, r, g, b, 0, 0, 0 - 1>>
      \o <<x1, y2, z1, r, g, b, 0, 0, 0 - 1>>
      \o <<x2, y2, z1, r, g, b, 0, 0, 0 - 1>>
      \* Top
      \o <<x1, y2, z2, r, g, b, 0, 1, 0>>
      \o <<x2, y2, z2, r, g, b, 0, 1, 0>>
      \o <<x2, y2, z1, r, g, b, 0, 1, 0>>
      \o <<x1, y2, z2, r, g, b, 0, 1, 0>>
      \o <<x2, y2, z1, r, g, b, 0, 1, 0>>
      \o <<x1, y2, z1, r, g, b, 0, 1, 0>>
      \* Bottom
      \o <<x1, y1, z1, r, g, b, 0, 0 - 1, 0>>
      \o <<x2, y1, z1, r, g, b, 0, 0 - 1, 0>>
      \o <<x2, y1, z2, r, g, b, 0, 0 - 1, 0>>
      \o <<x1, y1, z1, r, g, b, 0, 0 - 1, 0>>
      \o <<x2, y1, z2, r, g, b, 0, 0 - 1, 0>>
      \o <<x1, y1, z2, r, g, b, 0, 1, 0>>
      \* Right
      \o <<x2, y1, z2, r, g, b, 1, 0, 0>>
      \o <<x2, y1, z1, r, g, b, 1, 0, 0>>
      \o <<x2, y2, z1, r, g, b, 1, 0, 0>>
      \o <<x2, y1, z2, r, g, b, 1, 0, 0>>
      \o <<x2, y2, z1, r, g, b, 1, 0, 0>>
      \o <<x2, y2, z2, r, g, b, 1, 0, 0>>
      \* Left
      \o <<x1, y1, z1, r, g, b, 0 - 1, 0, 0>>
      \o <<x1, y1, z2, r, g, b, 0 - 1, 0, 0>>
      \o <<x1, y2, z2, r, g, b, 0 - 1, 0, 0>>
      \o <<x1, y1, z1, r, g, b, 0 - 1, 0, 0>>
      \o <<x1, y2, z2, r, g, b, 0 - 1, 0, 0>>
      \o <<x1, y2, z1, r, g, b, 0 - 1, 0, 0>>

\* mutant: the first triangle of the front face lists its vertices clockwise
createBox_clockwise(x, y, z, w, h, d, r, g, b) ==
  LET x1 == 2 * x - w
      x2 == 2 * x + w
      y1 == 2 * y - h
      y2 == 2 * y + h
      z1 == 2 * z - d
      z2 == 2 * z + d
  IN
      \* Front
      <<x1, y1, z2, r, g, b, 0, 0, 1>>
      \o <<x2, y2, z2, r, g, b, 0, 0, 1>>
      \o <<x2, y1, z2, r, g, b, 0, 0, 1>>
      \o <<x1, y1, z2, r, g, b, 0, 0, 1>>
      \o <<x2, y2, z2, r, g, b, 0, 0, 1>>
      \o <<x1, y2, z2, r, g, b, 0, 0, 1>>
      \* Back
      \o <<x2, y1, z1, r, g, b, 0, 0, 0 - 1>>
      \o <<x1, y1, z1, r, g, b, 0, 0, 0 - 1>>
      \o <<x1, y2, z1, r, g, b, 0, 0, 0 - 1>>
      \o <<x2, y1, z1, r, g, b, 0, 0, 0 - 1>>
      \o <<x1, y2, z1, r, g, b, 0, 0, 0 - 1>>
      \o <<x2, y2, z1, r, g, b, 0, 0, 0 - 1>>
      \* Top
      \o <<x1, y2, z2, r, g, b, 0, 1, 0>>
      \o <<x2, y2, z2, r, g, b, 0, 1, 0>>
      \o <<x2, y2, z1, r, g, b, 0, 1, 0>>
      \o <<x1, y2, z2, r, g, b, 0, 1, 0>>
      \o <<x2, y2, z1, r, g, b, 0, 1, 0>>
      \o <<x1, y2, z1, r, g, b, 0, 1, 0>>
      \* Bottom
      \o <<x1, y1, z1, r, g, b, 0, 0 - 1, 0>>
      \o <<x2, y1, z1, r, g, b, 0, 0 - 1, 0>>
      \o <<x2, y1, z2, r, g, b, 0, 0 - 1, 0>>
      \o <<x1, y1, z1, r, g, b, 0, 0 - 1, 0>>
      \o <<x2, y1, z2, r, g, b, 0, 0 - 1, 0>>
      \o <<x1, y1, z2, r, g, b, 0, 0 - 1, 0>>
      \* Right
      \o <<x2, y1, z2, r, g, b, 1, 0, 0>>
      \o <<x2, y1, z1, r, g, b, 1, 0, 0>>
      \o <<x2, y2, z1, r, g, b, 1, 0, 0>>
      \o <<x2, y1, z2, r, g, b, 1, 0, 0>>
      \o <<x2, y2, z1, r, g, b, 1, 0, 0>>
      \o <<x2, y2, z2, r, g, b, 1, 0, 0>>
      \* Left
      \o <<x1, y1, z1, r, g, b, 0 - 1, 0, 0>>
      \o <<x1, y1, z2, r, g, b, 0 - 1, 0, 0>>
      \o <<x1, y2, z2, r, g, b, 0 - 1, 0, 0>>
      \o <<x1, y1, z1, r, g, b, 0 - 1, 0, 0>>
      \o <<x1, y2, z2, r, g, b, 0 - 1, 0, 0>>
      \o <<x1, y2, z1, r, g, b, 0 - 1, 0, 0>>

createBox(x, y, z, w, h, d, r, g, b) ==
  LET x1 == 2 * x - w
      x2 == 2 * x + w
      y1 == 2 * y - h
      y2 == 2 * y + h
      z1 == 2 * z - d
      z2 == 2 * z + d
  IN
      \* Front
      <<x1, y1, z2, r, g, b, 0, 0, 1>>
      \o <<x2, y1, z2, r, g, b, 0, 0, 1>>
      \o <<x2, y2, z2, r, g, b, 0, 0, 1>>
      \o <<x1, y1, z2, r, g, b, 0, 0, 1>>
      \o <<x2, y2, z2, r, g, b, 0, 0, 1>>
      \o <<x1, y2, z2, r, g, b, 0, 0, 1>>
      \* Back
      \o <<x2, y1, z1, r, g, b, 0, 0, 0 - 1>>
      \o <<x1, y1, z1, r, g, b, 0, 0, 0 - 1>>
      \o <<x1, y2, z1, r, g, b, 0, 0, 0 - 1>>
      \o <<x2, y1, z1, r, g, b, 0, 0, 0 - 1>>
      \o <<x1, y2, z1, r, g, b, 0, 0, 0 - 1>>
      \o <<x2, y2, z1, r, g, b, 0, 0, 0 - 1>>
      \* Top
      \o <<x1, y2, z2, r, g, b, 0, 1, 0>>
      \o <<x2, y2, z2, r, g, b, 0, 1, 0>>
      \o <<x2, y2, z1, r, g, b, 0, 1, 0>>
      \o <<x1, y2, z2, r, g, b, 0, 1, 0>>
      \o <<x2, y2, z1, r, g, b, 0, 1, 0>>
      \o <<x1, y2, z1, r, g, b, 0, 1, 0>>
      \* Bottom
      \o <<x1, y1, z1, r, g, b, 0, 0 - 1, 0>>
      \o <<x2, y1, z1, r, g, b, 0, 0 - 1, 0>>
      \o <<x2, y1, z2, r, g, b, 0, 0 - 1, 0>>
      \o <<x1, y1, z1, r, g, b, 0, 0 - 1, 0>>
      \o <<x2, y1, z2, r, g, b, 0, 0 - 1, 0>>
      \o <<x1, y1, z2, r, g, b, 0, 0 - 1, 0>>
      \* Right
      \o <<x2, y1, z2, r, g, b, 1, 0, 0>>
      \o <<x2, y1, z1, r, g, b, 1, 0, 0>>
      \o <<x2, y2, z1, r, g, b, 1, 0, 0>>
      \o <<x2, y1, z2, r, g, b, 1, 0, 0>>
      \o <<x2, y2, z1, r, g, b, 1, 0, 0>>
      \o <<x2, y2, z2, r, g, b, 1, 0, 0>>
      \* Left
      \o <<x1, y1, z1, r, g, b, 0 - 1, 0, 0>>
      \o <<x1, y1, z2, r, g, b, 0 - 1, 0, 0>>
      \o <<x1, y2, z2, r, g, b, 0 - 1, 0, 0>>
      \o <<x1, y1, z1, r, g, b, 0 - 1, 0, 0>>
      \o <<x1, y2, z2, r, g, b, 0 - 1, 0, 0>>
      \o <<x1, y2, z1, r, g, b, 0 - 1, 0, 0>>

\* centers and sizes, in tenths: the five boxes of the boat, and sizes with a
\* zero and a negative extent
BoxCenters ==
  { <<0, 0 - 10, 0>>, <<0, 5, 5>>, <<0, 15, 5>>, <<0, 22, 0>>, <<0, 0 - 2, 20>> }
BoxSizes ==
  { <<30, 12, 50>>, <<22, 18, 25>>, <<24, 2, 28>>, <<6, 12, 6>>,
    <<0, 1, 0 - 4>> }
\* colors, in hundredths
BoxColors == { <<20, 40, 80>>, <<90, 90, 90>>, <<100, 80, 10>>, <<7, 14, 28>> }

\* init() of the simple variant: the cube's vertices, position x, y, z in
\* halves of a world unit and color r, g, b
cubeVertices ==
  <<
     \* Front face (Red)
     0 - 1, 0 - 1, 1, 1, 0, 0,
     1, 0 - 1, 1, 1, 0, 0,
     1, 1, 1, 1, 0, 0,
     0 - 1, 0 - 1, 1, 1, 0, 0,
     1, 1, 1, 1, 0, 0,
     0 - 1, 1, 1, 1, 0, 0,
     \* Back face (Green)
     0 - 1, 0 - 1, 0 - 1, 0, 1, 0,
     0 - 1, 1, 0 - 1, 0, 1, 0,
     1, 1, 0 - 1, 0, 1, 0,
     0 - 1, 0 - 1, 0 - 1, 0, 1, 0,
     1, 1, 0 - 1, 0, 1, 0,
     1, 0 - 1, 0 - 1, 0, 1, 0,
     \* Top face (Blue)
     0 - 1, 1, 0 - 1, 0, 0, 1,
     0 - 1, 1, 1, 0, 0, 1,
     1, 1, 1, 0, 0, 1,
     0 - 1, 1, 0 - 1, 0, 0, 1,
     1, 1, 1, 0, 0, 1,
     1, 1, 0 - 1, 0, 0, 1,
     \* Bottom face (Yellow)
     0 - 1, 0 - 1, 0 - 1, 1, 1, 0,
     1, 0 - 1, 0 - 1, 1, 1, 0,
     1, 0 - 1, 1, 1, 1, 0,
     0 - 1, 0 - 1, 0 - 1, 1, 1, 0,
     1, 0 - 1, 1, 1, 1, 0,
     0 - 1, 0 - 1, 1, 1, 1, 0,
     \* Right face (Magenta)
     1, 0 - 1, 0 - 1, 1, 0, 1,
     1, 1, 0 - 1, 1, 0, 1,
     1, 1, 1, 1, 0, 1,
     1, 0 - 1, 0 - 1, 1, 0, 1,
     1, 1, 1, 1, 0, 1,
     1, 0 - 1, 1, 1, 0, 1,
     \* Left face (Cyan)
     0 - 1, 0 - 1, 0 - 1, 0, 1, 1,
     0 - 1, 0 - 1, 1, 0, 1, 1,
     0 - 1, 1, 1, 0, 1, 1,
     0 - 1, 0 - 1, 0 - 1, 0, 1, 1,
     0 - 1, 1, 1, 0, 1, 1,
     0 - 1, 1, 0 - 1, 0, 1, 1
  >>

BoxInit ==
  /\ OrbitIdle /\ SurfaceIdle /\ AppIdle /\ SceneIdle
  /\ boxArgs \in {c \o sz \o col : c \in BoxCenters, sz \in BoxSizes,
                                   col \in BoxColors}
  /\ boxVerts = <<>>
  /\ cubeVerts = <<>>

BuildBox ==
  /\ boxVerts = <<>>
  /\ boxVerts' = createBox(boxArgs[1], boxArgs[2], boxArgs[3], boxArgs[4],
                           boxArgs[5], boxArgs[6], boxArgs[7], boxArgs[8],
                           boxArgs[9])
  /\ UNCHANGED <<boxArgs, cubeVerts>>

\* init() of the simple variant builds its vertex array
BuildCube ==
  /\ cubeVerts = <<>>
  /\ cubeVerts' = cubeVertices
  /\ UNCHANGED <<boxArgs, boxVerts>>

BoxNext ==
  \/ BuildBox /\ UNCHANGED <<orbitVars, surfaceVars, appVars, sceneVars>>
  \/ BuildCube /\ UNCHANGED <<orbitVars, surfaceVars, appVars, sceneVars>>

SpecBox == BoxInit /\ [][BoxNext]_vars

(***************************************************************************)
(* Claims about the geometry builder (SpecBox).                            *)
(***************************************************************************)
\* floats 1..3 (position), 4..6 (color) or 7..9 (normal) of vertex v, v
\* counted from 0
VertexPart(v, first) ==
  <<boxVerts[9 * v + first], boxVerts[9 * v + first + 1],
    boxVerts[9 * v + first + 2]>>

AxisUnits ==
  { <<1, 0, 0>>, <<0 - 1, 0, 0>>, <<0, 1, 0>>, <<0, 0 - 1, 0>>,
    <<0, 0, 1>>, <<0, 0, 0 - 1>> }

\* C8: for every input createBox returns 36 vertices of 9 floats each (324
\* numbers), every vertex carries the supplied color, every normal is one of
\* the six axis unit vectors, and each of the six normals is used by exactly
\* 6 consecutive vertices.
C8_BoxShape ==
  boxVerts # <<>> =>
    /\ Len(boxVerts) = 324
    /\ Len(boxVerts) = 36 * 9
    /\ \A v \in 0..35 :
         /\ VertexPart(v, 4) = <<boxArgs[7], boxArgs[8], boxArgs[9]>>
         /\ VertexPart(v, 7) \in AxisUnits
    /\ \A n \in AxisUnits :
         \E f \in 0..5 :
           {v \in 0..35 : VertexPart(v, 7) = n} = {6 * f + i : i \in 0..5}

\* createBox has built the chimney of the boat in the dark theme's color
C8_Witness ==
  /\ boxVerts # <<>>
  /\ boxArgs = <<0, 22, 0, 6, 12, 6, 7, 14, 28>>
  /\ VertexPart(35, 7) = <<0 - 1, 0, 0>>

(***************************************************************************)
(* The scene of the lit renderer: theme colors, geometry and the model     *)
(* matrix of a frame (SpecScene).                                          *)
(***************************************************************************)
\* the frames of one second more are followed when this is raised by one
MaxTime == 1

\* a * b of two numbers that count 1/Scale
Mul(a, b) == (a * b) \div Scale

\* x brought into -PI .. PI by whole turns
Wrap(x) == ((x + PI) % (2 * PI)) - PI

\* Math.sin and Math.cos of an angle in 1/Scale rad, to 1/Scale: the power
\* series on -PI/2 .. PI/2, the rest of the circle by symmetry
SinSeries(r) ==
  LET r2 == Mul(r, r)
      t3 == Mul(r, r2) \div 6
      t5 == Mul(t3, r2) \div 20
      t7 == Mul(t5, r2) \div 42
  IN  r - t3 + t5 - t7

CosSeries(r) ==
  LET r2 == Mul(r, r)
      t2 == r2 \div 2
      t4 == Mul(t2, r2) \div 12
      t6 == Mul(t4, r2) \div 30
      t8 == Mul(t6, r2) \div 56
  IN  Scale - t2 + t4 - t6 + t8

Sin(x) ==
  LET w == Wrap(x)
  IN  IF w > PI \div 2 THEN SinSeries(PI - w)
      ELSE IF w < 0 - (PI \div 2) THEN SinSeries((0 - PI) - w)
      ELSE SinSeries(w)

Cos(x) ==
  LET w == Wrap(x)
  IN  IF w > PI \div 2 THEN 0 - CosSeries(PI - w)
      ELSE IF w < 0 - (PI \div 2) THEN 0 - CosSeries((0 - PI) - w)
      ELSE CosSeries(w)

\* mat4.create(): the identity, column-major
mat4_create == [i \in 1..16 |-> IF i \in {1, 6, 11, 16} THEN Scale ELSE 0]

\* mat4.translate(out, a, [x, y, z])
mat4_translate(a, x, y, z) ==
  [i \in 1..16 |->
     IF i <= 12 THEN a[i]
     ELSE Mul(a[i - 12], x) + Mul(a[i - 8], y) + Mul(a[i - 4], z) + a[i]]

\* mat4.rotateZ(out, a, rad)
mat4_rotateZ(a, rad) ==
  LET s == Sin(rad)
      c == Cos(rad)
  IN  [i \in 1..16 |->
         IF i <= 4 THEN Mul(a[i], c) + Mul(a[i + 4], s)
         ELSE IF i <= 8 THEN Mul(a[i], c) - Mul(a[i - 4], s)
         ELSE a[i]]

\* mat4.rotateX(out, a, rad)
mat4_rotateX(a, rad) ==
  LET s == Sin(rad)
      c == Cos(rad)
  IN  [i \in 1..16 |->
         IF i <= 4 THEN a[i]
         ELSE IF i <= 8 THEN Mul(a[i], c) + Mul(a[i + 4], s)
         ELSE IF i <= 12 THEN Mul(a[i], c) - Mul(a[i - 4], s)
         ELSE a[i]]

\* render(): const bobY = Math.sin(now * 2) * 0.2
bobY(t) == (Sin(2 * t) * 2) \div 10
\* render(): const rockZ = Math.sin(now * 1.5) * 0.05
rockZ(t) == (Sin((3 * t) \div 2) * 5) \div 100
\* the pitch taken from the sine, like the bob and the roll
pitchX_sine(t) == (Sin((12 * t) \div 10) * 5) \div 100
\* render(): const pitchX = Math.cos(now * 1.2) * 0.05
pitchX(t) == (Cos((12 * t) \div 10) * 5) \div 100

\* render(): the model matrix of a frame at elapsed time t
modelMatrixAt(t) ==
  mat4_rotateX(
    mat4_rotateZ(mat4_translate(mat4_create, 0, bobY(t), 0), rockZ(t)),
    pitchX(t))

\* mutant: the brightness factor is applied to the red channel only
adjustBrightness_redOnly(color, factor) ==
  <<Min(Scale, Mul(color[1], factor)), color[2], color[3]>>

\* adjustBrightness(color, factor), channels in 1/Scale
adjustBrightness(color, factor) ==
  << Min(Scale, Mul(color[1], factor)),
     Min(Scale, Mul(color[2], factor)),
     Min(Scale, Mul(color[3], factor)) >>

\* the effect's baseColors, channels in 1/Scale
baseColors ==
  [ hull |-> <<(2 * Scale) \div 10, (4 * Scale) \div 10, (8 * Scale) \div 10>>,
    cabin |-> <<(9 * Scale) \div 10, (9 * Scale) \div 10, (9 * Scale) \div 10>>,
    roof |-> <<(2 * Scale) \div 10, (4 * Scale) \div 10, (8 * Scale) \div 10>>,
    chimney |-> <<Scale, (8 * Scale) \div 10, Scale \div 10>>,
    front |-> <<Scale \div 10, (2 * Scale) \div 10, (5 * Scale) \div 10>> ]

Themes == {"dark", "light"}

\* mutant: the brightness of the dark theme whatever the theme
brightnessFactor_fixed(th) == (35 * Scale) \div 100

\* const brightnessFactor = theme === "dark" ? 0.35 : 1.0
brightnessFactor(th) == IF th = "dark" THEN (35 * Scale) \div 100 ELSE Scale

\* the effect's adjustedColors
adjustedColors(th) ==
  [part \in DOMAIN baseColors |->
     adjustBrightness(baseColors[part], brightnessFactor(th))]

\* the effect's vertexData: the five boxes of the boat, centers and sizes
\* in tenths of a world unit (createBox counts positions in twentieths)
sceneVertexData(th) ==
  LET col == adjustedColors(th)
  IN  createBox(0, 0 - 10, 0, 30, 12, 50,
                col.hull[1], col.hull[2], col.hull[3])
      \o createBox(0, 5, 5, 22, 18, 25,
                   col.cabin[1], col.cabin[2], col.cabin[3])
      \o createBox(0, 15, 5, 24, 2, 28,
                   col.roof[1], col.roof[2], col.roof[3])
      \o createBox(0, 22, 0, 6, 12, 6,
                   col.chimney[1], col.chimney[2], col.chimney[3])
      \o createBox(0, 0 - 2, 20, 15, 5, 15,
                   col.front[1], col.front[2], col.front[3])

\* the theme changes the model follows since the mount
MaxToggles == 2

\* what render() reads as elapsed time when the effect calls it right after
\* taking startTime, in 1/Scale s
FirstElapsed == {0, 1}
\* the time from one animation frame to the next, in 1/Scale s
FrameGaps == {166, 167, 333}

SceneInit ==
  /\ OrbitIdle /\ SurfaceIdle /\ AppIdle /\ BoxIdle
  /\ theme \in Themes
  /\ vertexData = <<>>
  /\ now = 0
  /\ modelMatrix = <<>>
  /\ toggles = 0

\* the effect: geometry in the theme's colors, startTime, the first render()
SceneEffect ==
  /\ vertexData = <<>>
  /\ vertexData' = sceneVertexData(theme)
  /\ \E t \in FirstElapsed :
       /\ now' = t
       /\ modelMatrix' = modelMatrixAt(t)
  /\ UNCHANGED <<theme, toggles>>

\* render() called back for the next animation frame
SceneFrame ==
  /\ vertexData # <<>>
  /\ \E gap \in FrameGaps :
       /\ now + gap <= MaxTime * Scale
       /\ now' = now + gap
       /\ modelMatrix' = modelMatrixAt(now + gap)
  /\ UNCHANGED <<theme, vertexData, toggles>>

\* the theme prop changes: the cleanup runs and the effect runs again
ThemeToggle ==
  /\ vertexData # <<>>
  /\ toggles < MaxToggles
  /\ toggles' = toggles + 1
  /\ \E th \in Themes \ {theme} :
       /\ theme' = th
       /\ vertexData' = sceneVertexData(th)
  /\ \E t \in FirstElapsed :
       /\ now' = t
       /\ modelMatrix' = modelMatrixAt(t)

SceneNext ==
  \/ SceneEffect /\ UNCHANGED <<orbitVars, surfaceVars, appVars, boxVars>>
  \/ SceneFrame /\ UNCHANGED <<orbitVars, surfaceVars, appVars, boxVars>>
  \/ ThemeToggle /\ UNCHANGED <<orbitVars, surfaceVars, appVars, boxVars>>

SpecScene == SceneInit /\ [][SceneNext]_vars

(***************************************************************************)
(* The lit renderer's camera across a theme change: the mouse and wheel    *)
(* events, the frames, and the effect run again for a new theme.           *)
(***************************************************************************)
RebuildInit ==
  /\ SurfaceIdle /\ AppIdle /\ BoxIdle
  /\ cam = cameraState0
  /\ ev = Event("mount", 0)
  /\ pinchRec = 0 - 1
  /\ pinchBegun = FALSE
  /\ pinchPhase = "none"
  /\ theme \in Themes
  /\ vertexData = <<>>
  /\ now = 0
  /\ modelMatrix = <<>>
  /\ toggles = 0

\* mutant: the theme change mounts the renderer anew, with a new useRef
Rebuild_remounts ==
  /\ ThemeToggle
  /\ ev' = Event("theme", 0)
  /\ cam' = cameraState0
  /\ UNCHANGED <<pinchRec, pinchBegun, pinchPhase>>

\* the theme prop changes: cleanup and effect run in the same component, whose
\* cameraState ref neither of them assigns to
Rebuild ==
  /\ ThemeToggle
  /\ ev' = Event("theme", 0)
  /\ cam' = cam
  /\ UNCHANGED <<pinchRec, pinchBegun, pinchPhase>>

RebuildNext ==
  \/ SceneEffect /\ UNCHANGED <<orbitVars, surfaceVars, appVars, boxVars>>
  \/ Rebuild /\ UNCHANGED <<surfaceVars, appVars, boxVars>>
  \/ vertexData # <<>> /\ MouseDown /\ UNCHANGED pinchPhase
  \/ vertexData # <<>> /\ MouseMove /\ UNCHANGED pinchPhase
  \/ vertexData # <<>> /\ MouseUp /\ UNCHANGED pinchPhase
  \/ vertexData # <<>> /\ Wheel /\ UNCHANGED pinchPhase
  \/ vertexData # <<>> /\ RenderTick

SpecRebuild == RebuildInit /\ [][RebuildNext]_vars

(***************************************************************************)
(* The model transform of the three variants against the clock: now is the *)
(* time since the loop started, in 1/Scale s.  The lit renderer computes   *)
(* its model matrix from now; the simple and the two-viewport variant      *)
(* build theirs from the variable rotation (rotateY(rotation), and for the *)
(* simple variant rotateX(rotation * 0.5) after it).                       *)
(***************************************************************************)
SpinInit ==
  /\ SurfaceInit
  /\ client = DefaultCanvas
  /\ host = HostOk

\* frame() of the simple or the two-viewport variant, called back gap after
\* the previous frame: as far as the model transform goes
SpinTick ==
  /\ variant \in {"simple", "multi"}
  /\ rotation + rotationStep(variant) <= MaxRotation
  /\ rotation' = rotation + rotationStep(variant)
  /\ \E gap \in FrameGaps :
       /\ now + gap <= MaxTime * Scale
       /\ now' = now + gap
  /\ UNCHANGED <<variant, step, canvas, client, textures, depthTexture, ubo,
                 ops, seen, again, attached, host, neg, raf, canceled, live,
                 ui, late, theme, vertexData, modelMatrix, toggles>>

SpinNext ==
  \/ SpinTick /\ UNCHANGED <<orbitVars, appVars, boxVars>>
  \/ /\ variant = "lit"
     /\ SceneEffect
     /\ UNCHANGED <<orbitVars, surfaceVars, appVars, boxVars>>
  \/ /\ variant = "lit"
     /\ SceneFrame
     /\ UNCHANGED <<orbitVars, surfaceVars, appVars, boxVars>>

SpecSpin == SpinInit /\ [][SpinNext]_vars

(***************************************************************************)
(* Claims about the scene (SpecScene).                                     *)
(***************************************************************************)
\* a has the entries of b, each to within one unit of 1/Scale
Near(a, b) ==
  /\ Len(a) = Len(b)
  /\ \A i \in 1..Len(b) : a[i] - b[i] \in {0 - 1, 0, 1}

\* C11 as stated: a frame rendered at elapsed time t = 0 uses the identity as
\* its model matrix, the bob offset, the roll angle and the pitch angle all
\* being zero at t = 0.
C11_IdentityAtZero ==
  (modelMatrix # <<>> /\ now = 0) =>
    /\ bobY(now) = 0 /\ rockZ(now) = 0 /\ pitchX(now) = 0
    /\ modelMatrix = mat4_create

\* C11 amended: at t = 0 the bob offset and the roll angle are zero and the
\* pitch angle is cos(0) * 0.05 = 0.05 rad, so the model matrix of that frame
\* is the rotation by 0.05 rad about the X axis (cos 0.05 = 0.99875,
\* sin 0.05 = 0.04998), which is not the identity.
C11_PitchedAtZero ==
  (modelMatrix # <<>> /\ now = 0) =>
    /\ bobY(now) = 0 /\ rockZ(now) = 0
    /\ pitchX(now) = (5 * Scale) \div 100
    /\ Near(modelMatrix,
            << Scale, 0, 0, 0,
               0, 9988, 500, 0,
               0, 0 - 500, 9988, 0,
               0, 0, 0, Scale >>)
    /\ modelMatrix # mat4_create

\* the first render() of the effect has read an elapsed time of 0
C11_Witness ==
  /\ vertexData # <<>>
  /\ now = 0
  /\ modelMatrix[6] < Scale
  /\ modelMatrix[7] > 0

\* the color floats 4..6 of vertex v (from 0) of box k (from 0) of vertexData
UploadedColor(k, v) ==
  LET at == 324 * k + 9 * v
  IN  <<vertexData[at + 4], vertexData[at + 5], vertexData[at + 6]>>

\* the base color of box k, in the order the effect emits the boxes
BaseOf(k) ==
  << <<2000, 4000, 8000>>, <<9000, 9000, 9000>>, <<2000, 4000, 8000>>,
     <<10000, 8000, 1000>>, <<1000, 2000, 5000>> >>[k + 1]

\* C20: every color channel uploaded in the vertex buffer is
\* min(1, base channel * brightness) of its box, brightness being 0.35 in the
\* dark theme and 1.0 in the light theme; so every channel is at most 1 and,
\* in the light theme, equal to the base color.
C20_ThemeBrightness ==
  vertexData # <<>> =>
    /\ Len(vertexData) = 5 * 324
    /\ \A k \in 0..4, v \in 0..35, c \in 1..3 :
         LET up == UploadedColor(k, v)[c]
             b == IF theme = "dark" THEN 35 ELSE 100
         IN  /\ 100 * up = Min(100 * 10000, BaseOf(k)[c] * b)
             /\ up <= 10000
             /\ theme = "light" => up = BaseOf(k)[c]

\* the effect has run for the dark theme and frames have followed; the
\* chimney's red channel 1.0 is uploaded as 0.35
C20_Witness ==
  /\ vertexData # <<>>
  /\ theme = "dark"
  /\ now > 1
  /\ UploadedColor(3, 0) = <<3500, 2800, 350>>

(***************************************************************************)
(* Claims about the winding of the triangles (SpecBox).                    *)
(***************************************************************************)
Sub3(a, b) == <<a[1] - b[1], a[2] - b[2], a[3] - b[3]>>
Cross3(a, b) ==
  << a[2] * b[3] - a[3] * b[2],
     a[3] * b[1] - a[1] * b[3],
     a[1] * b[2] - a[2] * b[1] >>
Dot3(a, b) == a[1] * b[1] + a[2] * b[2] + a[3] * b[3]

\* (v1 - v0) x (v2 - v0) of the triangle whose corners are p0, p1, p2
FaceCross(p0, p1, p2) == Cross3(Sub3(p1, p0), Sub3(p2, p0))

\* u is a positive multiple of the axis unit vector n
AlongAxis(u, n) ==
  /\ Dot3(u, n) > 0
  /\ \A i \in 1..3 : n[i] = 0 => u[i] = 0

\* the position of vertex v (from 0) of the simple variant's cube
CubePos(v) ==
  <<cubeVerts[6 * v + 1], cubeVerts[6 * v + 2], cubeVerts[6 * v + 3]>>

\* C19: for a box of positive width, height and depth, each of the 12
\* triangles of createBox is counter-clockwise seen from outside: the cross
\* product (v1 - v0) x (v2 - v0) of its positions points the way of the
\* normal its three vertices carry.  The simple variant's cube, which stores
\* no normals, has every triangle's cross product along an axis and pointing
\* away from the cube's center.
C19_OutwardWinding ==
  /\ (boxVerts # <<>> /\ boxArgs[4] > 0 /\ boxArgs[5] > 0 /\ boxArgs[6] > 0) =>
       \A t \in 0..11 :
         /\ VertexPart(3 * t + 1, 7) = VertexPart(3 * t, 7)
         /\ VertexPart(3 * t + 2, 7) = VertexPart(3 * t, 7)
         /\ AlongAxis(FaceCross(VertexPart(3 * t, 1), VertexPart(3 * t + 1, 1),
                                VertexPart(3 * t + 2, 1)),
                      VertexPart(3 * t, 7))
  /\ cubeVerts # <<>> =>
       /\ Len(cubeVerts) = 36 * 6
       /\ \A t \in 0..11 :
            LET u == FaceCross(CubePos(3 * t), CubePos(3 * t + 1),
                               CubePos(3 * t + 2))
            IN  /\ \E n \in AxisUnits : AlongAxis(u, n)
                /\ Dot3(u, CubePos(3 * t)) > 0

\* createBox has built the hull of the boat and init() the cube
C19_Witness ==
  /\ cubeVerts # <<>>
  /\ boxVerts # <<>>
  /\ <<boxArgs[1], boxArgs[2], boxArgs[3]>> = <<0, 0 - 10, 0>>
  /\ <<boxArgs[4], boxArgs[5], boxArgs[6]>> = <<30, 12, 50>>

(***************************************************************************)
(* Claims about the pointer state machine (SpecOrbit, SpecPinch).  Idle is *)
(* isDragging = false, Dragging is isDragging = true.                      *)
(***************************************************************************)
\* theta, phi and radius are the same in c and d
SameView(c, d) == c.theta = d.theta /\ c.phi = d.phi /\ c.radius = d.radius

\* C17: mousedown and a touchstart with exactly one touch make the controller
\* Dragging and record the pointer position as the last position; mouseup and
\* touchend make it Idle; while it is Idle a mousemove and a one-finger
\* touchmove leave theta, phi, radius and the last position unchanged.
C17_DragStateMachine ==
  [][ /\ \A x \in Xs, y \in Ys :
           (ev'.type = "mousedown" /\ cam' = handleMouseDown(cam, x, y)) =>
             /\ cam'.isDragging /\ cam'.lastX = x /\ cam'.lastY = y
             /\ SameView(cam, cam')
      /\ \A ts \in [1..1 -> DragPts] :
           (ev' = Event("touchstart", 1) /\ cam' = handleTouchStart(cam, ts)) =>
             /\ cam'.isDragging
             /\ cam'.lastX = ts[1][1] /\ cam'.lastY = ts[1][2]
             /\ SameView(cam, cam')
      /\ ev'.type \in {"mouseup", "touchend"} =>
           /\ ~cam'.isDragging
           /\ SameView(cam, cam')
           /\ cam'.lastX = cam.lastX /\ cam'.lastY = cam.lastY
      /\ (~cam.isDragging
            /\ (ev'.type = "mousemove" \/ ev' = Event("touchmove", 1))) =>
           /\ ~cam'.isDragging
           /\ SameView(cam, cam')
           /\ cam'.lastX = cam.lastX /\ cam'.lastY = cam.lastY
    ]_vars

\* a drag begun by a finger at (100, 100) has been ended by touchend, and the
\* controller is Idle with that position still recorded
C17_Witness ==
  /\ ev.type = "touchend"
  /\ ~cam.isDragging
  /\ cam.lastX = 100 /\ cam.lastY = 100
  /\ cam.theta # cameraState0.theta

\* C18 as stated: a touchstart with two touches switches dragging off and
\* records the two-point distance; once the touch count has dropped below two
\* (the touchend that follows), the controller is Idle, and the remaining
\* finger's moves change neither the angles nor the radius until a new
\* touchstart occurs.
C18_IdleUntilTouchStart ==
  [][ /\ \A ts \in TwoLists :
           (ev' = Event("touchstart", 2) /\ cam' = handleTouchStart(cam, ts)) =>
             ~cam'.isDragging /\ IsEuclidean(cam'.lastPinchDist, ts)
      /\ (pinchPhase = "pinching" /\ ev'.type = "touchend") => ~cam'.isDragging
      /\ (pinchPhase = "ended" /\ ev' = Event("touchmove", 1)) =>
           SameView(cam, cam')
    ]_vars

\* C18 amended: a touchstart with two touches, from Idle or Dragging, switches
\* dragging off and records the two-point distance; once the touch count has
\* dropped below two the controller is Idle, and it stays Idle, the remaining
\* finger's moves changing neither the angles nor the radius, until a new
\* touchstart or a mousedown occurs.
C18_IdleUntilPointerDown ==
  [][ /\ \A ts \in TwoLists :
           (ev' = Event("touchstart", 2) /\ cam' = handleTouchStart(cam, ts)) =>
             ~cam'.isDragging /\ IsEuclidean(cam'.lastPinchDist, ts)
      /\ (pinchPhase = "pinching" /\ ev'.type = "touchend") => ~cam'.isDragging
      /\ (pinchPhase = "ended" /\ ~cam.isDragging
            /\ ev'.type \notin {"touchstart", "mousedown"}) =>
           /\ ~cam'.isDragging
           /\ ev' = Event("touchmove", 1) => SameView(cam, cam')
    ]_vars

\* a second finger has come down during a drag, one finger has been lifted,
\* and the remaining finger has just moved
C18_Witness ==
  /\ pinchPhase = "ended"
  /\ ev = Event("touchmove", 1)
  /\ ~cam.isDragging
  /\ cam.theta # cameraState0.theta
  /\ cam.lastPinchDist = 100 * DistScale

(***************************************************************************)
(* Claims about the draws of the two-viewport frame (SpecSurface).         *)
(***************************************************************************)
\* the places of the draw calls in the GPU calls of the last step
DrawsAt == {i \in 1..Len(ops) : ops[i].op = "draw"}
\* the place of the last draw call before place i, 0 when there is none
DrawBefore(i) ==
  IF \E j \in DrawsAt : j < i
    THEN CHOOSE j \in DrawsAt : j < i /\ \A k \in DrawsAt : k < i => k <= j
    ELSE 0

\* C16: in the two-viewport frame there are four draw calls (boat and water
\* in the main view, boat and water in the minimap), and each is preceded,
\* after the draw call before it, by a write of the MVP matrix (offset 0, 64
\* bytes) and a write of the color (offset 64, 16 bytes): all 80 bytes of the
\* uniform block are rewritten before every draw.
C16_RewriteBeforeDraw ==
  (variant = "multi" /\ step = "frame") =>
    /\ Cardinality(DrawsAt) = 4
    /\ \A i \in DrawsAt :
         /\ \E j \in (DrawBefore(i) + 1)..(i - 1) :
              /\ ops[j].op = "writeBuffer"
              /\ ops[j].offset = 0 /\ ops[j].size = 64
         /\ \E j \in (DrawBefore(i) + 1)..(i - 1) :
              /\ ops[j].op = "writeBuffer"
              /\ ops[j].offset = 64 /\ ops[j].size = 16
         /\ 64 + 16 = ubo.size

\* a two-viewport frame has drawn boat, water, boat and water
C16_Witness ==
  /\ variant = "multi"
  /\ step = "frame"
  /\ Cardinality(DrawsAt) = 4
  /\ \E i \in DrawsAt : ops[i].id = 12 /\ DrawBefore(i) > 0

(***************************************************************************)
(* Claims about initialization failures and teardown (SpecSurface).        *)
(***************************************************************************)
\* C12: in every renderer variant, once the component is torn down the
\* pending next-frame request is cancelled and no frame callback encodes or
\* submits a render pass any more.
C12_NoFrameAfterTeardown ==
  ~attached =>
    /\ raf = 0
    /\ \A i \in 1..Len(ops) : ops[i].op \notin {"beginRenderPass", "submit"}

\* C13: on teardown of a renderer, or when its effect runs again because
\* theme or device changed, every GPU resource it created is released: no
\* resource is live after the teardown, and the live resources never exceed
\* what one setup creates.
C13_ReleasedOnTeardown ==
  /\ ~attached => live = 0
  /\ live <= ResourcesOf(variant)

\* C14: when the component is torn down while requestAdapter or requestDevice
\* is pending, the later completion sets no component state, creates no GPU
\* resource and starts no frame loop.
C14_LateCompletionNoOp ==
  late =>
    /\ ui = ui0
    /\ live = 0
    /\ raf = 0
    /\ step = "mount"

\* C15: every initialization failure (no GPU capability, no adapter, device
\* request rejected, no canvas context) is surfaced: when the initialization
\* of a mounted component has ended on a failing host, the component shows an
\* error (an alert counted as one).
C15_FailureSurfaced ==
  (neg = "done" /\ ~late /\ host # HostOk) =>
    (ui.error # NULL \/ ui.alerted)

(***************************************************************************)
(* Claims about the depth target and the frame loop (SpecSurface).         *)
(***************************************************************************)
\* the depth textures created and not destroyed
LiveDepth == {i \in 1..Len(textures) : textures[i].destroys = 0}

\* C21: at every point of a run at most one depth target is live, the prior
\* one having been destroyed before a new one is allocated, and no destroyed
\* depth target is attached to a render pass.
C21_OneLiveDepthTarget ==
  /\ Cardinality(LiveDepth) <= 1
  /\ \A i \in 1..Len(ops) :
       ops[i].op = "beginRenderPass" => ops[i].id \in LiveDepth
  /\ \A i \in 1..Len(ops) :
       ops[i].op = "createTexture" =>
         \A j \in 1..(ops[i].id - 1) : textures[j].destroys > 0

\* the GPU calls named name that the last step made
OpsNamed(name) == {i \in 1..Len(ops) : ops[i].op = name}

\* C22: a frame that observes a canvas width or height of zero skips
\* rendering (it allocates no depth target and encodes and submits no pass),
\* surfaces no error, and still requests the next frame.
C22_ZeroSizeSkipped ==
  (step = "frame" /\ (canvas.width = 0 \/ canvas.height = 0)) =>
    /\ OpsNamed("createTexture") = {}
    /\ OpsNamed("beginRenderPass") = {}
    /\ OpsNamed("submit") = {}
    /\ ui.error = NULL /\ ~ui.alerted
    /\ Cardinality(OpsNamed("requestAnimationFrame")) = 1

\* C23: at the moment a frame begins its render pass, the depth target
\* attached to the pass has the width and the height of the canvas, whatever
\* the canvas size changes between frames.  (The aspect ratio is computed in
\* the same frame from the same canvas.width and canvas.height.)
C23_DepthMatchesCanvas ==
  step = "frame" =>
    \A i \in OpsNamed("beginRenderPass") :
      /\ textures[ops[i].id].width = canvas.width
      /\ textures[ops[i].id].height = canvas.height

(***************************************************************************)
(* Claim about the model transform and the clock (SpecSpin).               *)
(***************************************************************************)
\* C24: the model transform of a frame is a function of the elapsed time
\* only: a run that reaches an elapsed time after several frames uses the
\* transform that a run reaching the same elapsed time in its first frame
\* uses (the model matrix at that time for the lit renderer, the rotation of
\* one frame for the other two).
C24_TimeOnly ==
  now \in FrameGaps =>
    IF variant = "lit"
      THEN modelMatrix # <<>> => modelMatrix = modelMatrixAt(now)
      ELSE rotation = rotationStep(variant)

C26_ErrorIsTerminal ==
  [][ app.error # "" =>
        /\ app'.error = app.error
        /\ app.device = NULL /\ app'.device = NULL
        /\ pc' \notin {"start", "adapter", "device", "then1", "catch1"}
    ]_vars

\* without the GPU capability the error has been set, the tunnel response has
\* arrived, the chain has ended and the theme has been toggled since
C26_Witness ==
  /\ ~env.gpu
  /\ pc = "done"
  /\ app.error = "WebGPU no esta soportado en este navegador"
  /\ app.tunnelUrl = TunnelUrl
  /\ ~app.loading
  /\ app.theme = "light"

(***************************************************************************)
(* Claim about the camera state and the frame loop (SpecView).             *)
(***************************************************************************)
InputEvents ==
  {"mousedown", "mouseup", "mousemove", "wheel", "touchstart", "touchmove",
   "touchend"}

\* C27: a frame leaves every field of the camera state unchanged (theta,
\* phi, radius, isDragging, lastX, lastY, lastPinchDist); the camera state
\* changes in the handlers of input events only.
C27_FrameReadsOnly ==
  [][ /\ ev'.type = "frame" =>
           /\ cam'.theta = cam.theta /\ cam'.phi = cam.phi
           /\ cam'.radius = cam.radius /\ cam'.isDragging = cam.isDragging
           /\ cam'.lastX = cam.lastX /\ cam'.lastY = cam.lastY
           /\ cam'.lastPinchDist = cam.lastPinchDist
      /\ cam' # cam => ev'.type \in InputEvents
    ]_vars

\* a frame has run in the middle of a drag that has turned the camera
C27_Witness ==
  /\ ev.type = "frame"
  /\ cam.isDragging
  /\ cam.theta # cameraState0.theta
  /\ cam.phi # cameraState0.phi

(***************************************************************************)
(* Claim about the uniforms the draws of a two-viewport frame read         *)
(* (SpecSurface).                                                          *)
(***************************************************************************)
\* C28: when the command buffer of a two-viewport frame executes, each of
\* its four draws reads the MVP matrix and the color written for it
\* (perspective and red, perspective and blue, orthographic and yellow,
\* orthographic and dark blue), the writes being queue operations issued
\* before the one submit that ends the frame.
C28_EachDrawReadsItsOwn ==
  (variant = "multi" /\ step = "frame") =>
    /\ \A w \in OpsNamed("writeBuffer"), sb \in OpsNamed("submit") : w < sb
    /\ Cardinality(OpsNamed("submit")) = 1
    /\ \A n \in 1..Len(MultiDraws) :
         executedUniforms(ubo) = [ mvp |-> Mat4(MultiDraws[n].mvp),
                                   color |-> Floats4(MultiDraws[n].color) ]

(***************************************************************************)
(* Claim about the animation-frame requests (SpecSurface).                 *)
(***************************************************************************)
\* C29: at every point of a run, theme changes that run the effect again and
\* a teardown during the asynchronous initialization included, at most one
\* animation-frame request is pending, and each step that submits a frame
\* requests the next frame exactly once, after the submit.
C29_OnePendingRequest ==
  /\ raf <= 1
  /\ OpsNamed("submit") # {} =>
       /\ Cardinality(OpsNamed("requestAnimationFrame")) = 1
       /\ \A sb \in OpsNamed("submit"), r \in OpsNamed("requestAnimationFrame") :
            sb < r
  /\ (~attached /\ late) => raf = 0

\* the lit renderer's effect has run a second time after a theme change, and
\* the new loop has been called back
C29_Witness ==
  /\ variant = "lit"
  /\ Len(textures) = 2
  /\ neg = "done"
  /\ step = "frame"
  /\ raf = 1

\* C30: in every state of the App initialization chain a populated device
\* handle and a non-empty error never coexist, and tunnelUrl is non-null only
\* if error is non-empty; on the path where the initialization succeeds the
\* tunnel URL is neither fetched nor stored.
C30_DeviceErrorExclusive ==
  /\ ~(app.device # NULL /\ app.error # "")
  /\ app.tunnelUrl # NULL => app.error # ""
  /\ GpuSucceeds => (app.tunnelUrl = NULL /\ pc \notin {"fetch", "json"})
  /\ app.device # NULL => (app.tunnelUrl = NULL /\ pc \notin {"fetch", "json"})

\* the adapter request has answered null: the error is set, the tunnel URL
\* has been fetched and stored, and no device is held
C30_Witness ==
  /\ env.gpu /\ env.adapter = "null"
  /\ pc = "done"
  /\ app.error = "No se encontro un adaptador GPU"
  /\ app.tunnelUrl = TunnelUrl
  /\ app.device = NULL

(***************************************************************************)
(* Claim about the end of the App initialization chain (SpecAppFair).      *)
(***************************************************************************)
\* the tunnel request gives no URL: the response is not OK, its URL is null,
\* or the fetch (or the parsing of its body) is rejected
NoTunnelUrl == env.fetch \in {"rejected", "notOk", "badJson", "nullUrl"}

\* C31: while the App stays mounted and every promise started settles,
\* loading becomes false on every path (success, failure with a URL, failure
\* with a null URL, with a response that is not OK, with a rejected fetch);
\* where the failure obtains no URL the final state is Error without a
\* tunnel URL; and after the unmount no state setter is called.
C31_LoadingEnds ==
  /\ <>(~app.loading \/ ~isMounted)
  /\ []((pc = "done" /\ isMounted) => ~app.loading)
  /\ []((pc = "done" /\ isMounted /\ ~GpuSucceeds /\ NoTunnelUrl) =>
          (Display(app) = "Error" /\ app.tunnelUrl = NULL))
  /\ [][~isMounted => app' = app]_vars

\* the initialization has failed, the tunnel fetch was rejected, and the
\* mounted application has left Loading for Error
C31_Witness ==
  /\ isMounted
  /\ pc = "done"
  /\ ~GpuSucceeds
  /\ env.fetch = "rejected"
  /\ ~app.loading
  /\ Display(app) = "Error"
  /\ app.tunnelUrl = NULL

(***************************************************************************)
(* Claim about the camera across a theme change (SpecRebuild).             *)
(***************************************************************************)
\* C32: a theme change rebuilds the renderer and leaves the camera state
\* untouched: theta, phi, radius and the dragging flag after the rebuild are
\* what they were just before the change, and the frame of the rebuilt loop
\* that follows reads these values.
C32_CameraSurvivesRebuild ==
  [][ /\ theme' # theme =>
           /\ vertexData' # vertexData
           /\ cam'.theta = cam.theta /\ cam'.phi = cam.phi
           /\ cam'.radius = cam.radius /\ cam'.isDragging = cam.isDragging
      /\ (ev.type = "theme" /\ ev'.type = "frame") =>
           /\ cam'.theta = cam.theta /\ cam'.phi = cam.phi
           /\ cam'.radius = cam.radius /\ cam'.isDragging = cam.isDragging
    ]_vars

\* the theme has changed in the middle of a drag that had turned and zoomed
\* the camera, and the rebuilt loop has rendered its next frame
C32_Witness ==
  /\ ev.type = "frame"
  /\ toggles = 1
  /\ cam.isDragging
  /\ cam.theta # cameraState0.theta
  /\ cam.radius # cameraState0.radius

(***************************************************************************)
(* Claim about the minimap's sub-rectangle (SpecSurface).                  *)
(***************************************************************************)
\* the rectangle a lies within the rectangle b
Within(a, b) ==
  /\ a.x >= b.x /\ a.y >= b.y
  /\ a.x + a.width <= b.x + b.width
  /\ a.y + a.height <= b.y + b.height

\* C33: for every canvas size a frame of the two-viewport variant observes,
\* the minimap's sub-rectangle (x = 20, y = canvas.height - 220, 200 x 200)
\* lies within the output surface: y >= 0, 20 + 200 <= canvas.width and
\* y + 200 <= canvas.height; and within the main view's sub-rectangle.
C33_MinimapWithinSurface ==
  (variant = "multi" /\ step = "frame") =>
    LET m == minimapViewport(canvas)
    IN  /\ m.y >= 0
        /\ m.x + m.width <= canvas.width
        /\ m.y + m.height <= canvas.height
        /\ Within(m, mainViewport(canvas))



(***************************************************************************)
(* Claims about the theme preference.                                      *)
(***************************************************************************)
ValidTheme(t) == t = "light" \/ t = "dark"
OtherTheme(t) == IF t = "dark" THEN "light" ELSE "dark"
AfterToggles(t, n) == IF n % 2 = 0 THEN t ELSE OtherTheme(t)

\* every effect that was due has run and the render shows the theme state
ThemeSettled == pref.pc = "idle" /\ app.theme = pref.rendered

\* C34: the theme preference survives a reload.  Once the mount effects and
\* the renders they cause have run: with no toggle since the load effect, a
\* valid item found at the mount is the theme, and an invalid or missing
\* item leaves the theme "dark" (unless a toggle came before the load
\* effect); the item equals the theme, so the first save of "dark" has been
\* written over; and every toggle since then has flipped the theme, so two
\* toggles give the theme they started from.
C34_ThemeSurvivesReload ==
  ThemeSettled =>
    /\ pref.item = app.theme
    /\ app.theme =
         AfterToggles(IF ValidTheme(pref.atMount) THEN pref.atMount
                      ELSE AfterToggles("dark", pref.early), pref.clicks)

\* a page that was toggled to "light" is loaded again, and the new App has
\* restored "light" after its first save had stored "dark"
C34_Witness ==
  /\ ThemeSettled
  /\ pref.loads = 1 /\ pref.atMount = "light" /\ pref.clicks = 0
  /\ app.theme = "light" /\ pref.item = "light"

====
